---- MODULE Spec2Model ----
(***************************************************************************)
(* A model of the pydvdread ctypes bindings (dvdcss.py, dvdread.py,        *)
(* dvdnav.py).                                                             *)
(*                                                                         *)
(* The three modules are import-time declarations: a platform selection    *)
(* that loads a shared library, ctypes.Structure descriptors whose layout  *)
(* ctypes computes from _fields_, and foreign-function objects             *)
(* (restype/argtypes) that forward every call to the native library.       *)
(*                                                                         *)
(*   Spec        the bound open / operation / close entry points, called   *)
(*               by two host threads, and what reaches the native library  *)
(*   SpecBind    module initialisation: imports, platform selection,       *)
(*               library loads and symbol lookups                          *)
(*   SpecLayout  the layout ctypes computes for each struct descriptor     *)
(***************************************************************************)
EXTENDS Integers, Sequences, FiniteSets, TLC

VARIABLES
    inuse,      \* Spec: the binding module whose handles the host works with
    hstate,     \* Spec: lifecycle of each native handle (Unopened/Open/Closed)
    ptr,        \* Spec: the pointer value the host holds for each handle
    closes,     \* Spec: how often the native close entry point was reached
    reg,        \* Spec: storage of the callback registration passed at open
    tpc,        \* Spec: per host thread, the native call it is inside
    osname,     \* SpecBind: os.name
    entry,      \* SpecBind: the module the host imports
    stack,      \* SpecBind: modules whose body is executing (innermost last)
    pos,        \* SpecBind: per module, the statement group reached
    ready,      \* SpecBind: modules that finished initialising
    loaded,     \* SpecBind: libraries loaded so far, in order
    nlookups,   \* SpecBind: per library, symbols looked up so far
    err,        \* SpecBind: the exception that ended initialisation
    nstmts,     \* SpecBind: per module, class and _fields_ statements executed
    cstate,     \* SpecBind: per struct class, what has happened to it
    tick,       \* SpecBind: number of _fields_ assignments to the classes made so far
    constructed,\* SpecBind: the shell classes the host has made an instance of
    cls,        \* SpecLayout: position in ClassOrder of the class being laid out
    idx,        \* SpecLayout: fields of it processed so far
    lay,        \* SpecLayout: running size/offset/align/bitfield state
    placed,     \* SpecLayout: the field descriptors made so far
    stg,        \* SpecLayout: per finished class, its size, alignment and fields
    inst,       \* SpecLayout: the class of the instance the host works on
    buf,        \* SpecLayout: the bits of the instance's memory
    nwrites,    \* SpecLayout: field assignments made on the instance
    wrote,      \* SpecLayout: the last assignment and the field values before it
    vwrote,     \* SpecLayout: the last assignment through a variant of a union
    tramps,     \* SpecCallback: per callback slot, the trampoline the host made
    call,       \* SpecCallback: the last call of a trampoline by native code
    result,     \* SpecCall: the last foreign call and what the host got from it
    acall       \* SpecCall: the last call of an entry point and how it ended

hvars == <<inuse, hstate, ptr, closes, reg, tpc>>
svars == <<nstmts, cstate, tick, constructed>>
bvars == <<osname, entry, stack, pos, ready, loaded, nlookups, err, svars>>
lvars == <<cls, idx, lay, placed, stg>>
cvars == <<tramps, call, result, acall>>
wvars == <<inst, buf, nwrites, wrote, vwrote>>
ivars == <<wvars, cvars>>
vars == <<hvars, bvars, lvars, ivars>>

(***************************************************************************)
(* Part 1.  The bound entry points.                                        *)
(*                                                                         *)
(* Every entry point is a ctypes function object taken from the library    *)
(* (dvd_close = _libdvdread.DVDClose) with restype and argtypes set.       *)
(* Calling it converts the arguments and calls the native function: no     *)
(* handle state is kept or consulted on the host side, and a NULL or stale *)
(* pointer of the declared type is an acceptable argument.  ctypes.CDLL    *)
(* releases the interpreter lock around the foreign call, so calls of two  *)
(* host threads overlap.                                                   *)
(***************************************************************************)

\* One handle of each context type; "navrd" is the reader context that the
\* navigation context opens internally (_VMT.videolanlibdvd), "navdup" the
\* navigation context dvdnav_dup makes of another.
Handles == {"css", "rd", "file", "nav", "navrd", "navdup"}

\* The callback records an open entry point takes a pointer to, by handle:
\* a stream record (POINTER(_DVDCSSStreamCB), POINTER(_DVDReaderStreamCB),
\* POINTER(_DVDNavStreamCB)) and a logger record (POINTER(_DVDLoggerCB),
\* POINTER(_DVDNavLoggerCB)).
Registrations ==
    {<<"css", "stream">>, <<"rd", "stream">>, <<"rd", "logger">>,
     <<"nav", "stream">>, <<"nav", "logger">>}
Threads == {"t1", "t2"}

\* The handles each binding module hands out.  Handles of different modules
\* share no state, so a behaviour follows the handles of one module; the
\* reader inside a navigation context is reached through dvdnav.
Modules == {"dvdcss", "dvdread", "dvdnav"}
\* With dvdnav the host works either with a navigation context and the
\* reader inside it, or with a navigation context and its copy.
Scenarios == Modules \cup {"dvdnav_dup"}
HandlesOf(m) ==
    CASE m = "dvdcss" -> {"css"}
      [] m = "dvdread" -> {"rd", "file"}
      [] m = "dvdnav" -> {"nav", "navrd"}
      [] m = "dvdnav_dup" -> {"nav", "navdup"}

\* Bound on the forwarded close calls counted per handle.
MaxCloses == 2

Idle == [fn |-> "idle", kind |-> "none", h |-> "none", at |-> "none", p |-> "none"]

InFlight(t) == tpc[t].fn # "idle"

\* A ctypes foreign call: the arguments are passed on and the native function
\* runs.  Nothing is checked but the argument's type, so the call is enabled
\* in every handle state.  `at` and `p` keep the handle's state and the
\* pointer value as they were when the call was forwarded.
Forward(t, fn, kind, h) ==
    /\ h \in HandlesOf(inuse)
    /\ ~InFlight(t)
    /\ tpc' = [tpc EXCEPT ![t] =
                 [fn |-> fn, kind |-> kind, h |-> h, at |-> hstate[h], p |-> ptr[h]]]
    /\ UNCHANGED <<bvars, lvars>>
    /\ UNCHANGED ivars

\* An open entry point.  A handle slot of the model stands for one handle
\* object, so it is opened once.
ForwardOpen(t, fn, h) ==
    /\ ptr[h] = "unset"
    /\ \A u \in Threads : ~(tpc[u].kind = "open" /\ tpc[u].h = h)
    /\ Forward(t, fn, "open", h)
    /\ UNCHANGED <<inuse, hstate, ptr, closes, reg>>

\* An open that takes callback records: the host passes a pointer to each
\* record it allocated (POINTER(_DVDReaderStreamCB), POINTER(_DVDLoggerCB)
\* etc.).
ForwardOpenWith(t, fn, h, records) ==
    /\ ptr[h] = "unset"
    /\ \A u \in Threads : ~(tpc[u].kind = "open" /\ tpc[u].h = h)
    /\ Forward(t, fn, "open", h)
    /\ reg' = [r \in Registrations |->
                 IF r[1] = h /\ r[2] \in records THEN "alive" ELSE reg[r]]
    /\ UNCHANGED <<inuse, hstate, ptr, closes>>

\* A stream-backed open.
ForwardOpenStream(t, fn, h) == ForwardOpenWith(t, fn, h, {"stream"})

\* A read / seek / query / control entry point.
ForwardOp(t, fn, h) ==
    /\ Forward(t, fn, "op", h)
    /\ UNCHANGED <<inuse, hstate, ptr, closes, reg>>

\* A close entry point.
ForwardClose(t, fn, h) ==
    /\ closes[h] < MaxCloses
    /\ Forward(t, fn, "close", h)
    /\ closes' = [closes EXCEPT ![h] = @ + 1]
    /\ UNCHANGED <<inuse, hstate, ptr, reg>>

dvdcss_open(t) == ForwardOpen(t, "dvdcss_open", "css")
dvdcss_open_stream(t) == ForwardOpenStream(t, "dvdcss_open_stream", "css")
dvdcss_close(t) == ForwardClose(t, "dvdcss_close", "css")
dvdcss_read(t) == ForwardOp(t, "dvdcss_read", "css")

dvd_open(t) == ForwardOpen(t, "DVDOpen", "rd")
dvd_open_stream(t) == ForwardOpenStream(t, "DVDOpenStream", "rd")
dvd_open2(t) == ForwardOpenWith(t, "DVDOpen2", "rd", {"logger"})
dvd_open_stream2(t) == ForwardOpenWith(t, "DVDOpenStream2", "rd", {"logger", "stream"})
\* DVDClose takes any POINTER(_DVDReaderT): the host's own reader, or the one
\* it read out of an open navigation context (nav.vm.videolanlibdvd).
dvd_close(t) ==
    \E h \in {"rd", "navrd"} :
        /\ h = "navrd" => ptr[h] = "addr"
        /\ ForwardClose(t, "DVDClose", h)
dvd_disc_id(t) ==
    \E h \in {"rd", "navrd"} :
        /\ h = "navrd" => ptr[h] = "addr"
        /\ ForwardOp(t, "DVDDiscID", h)

dvd_open_file(t) == ForwardOpen(t, "DVDOpenFile", "file")
dvd_close_file(t) == ForwardClose(t, "DVDCloseFile", "file")
dvd_read_blocks(t) == ForwardOp(t, "DVDReadBlocks", "file")

dvdnav_open(t) == ForwardOpen(t, "dvdnav_open", "nav")
dvdnav_open_stream(t) == ForwardOpenStream(t, "dvdnav_open_stream", "nav")
dvdnav_open2(t) == ForwardOpenWith(t, "dvdnav_open2", "nav", {"logger"})
dvdnav_open_stream2(t) ==
    ForwardOpenWith(t, "dvdnav_open_stream2", "nav", {"logger", "stream"})
\* dvdnav_dup(dest, src): src is any POINTER(_DVDNavT), dest receives the
\* pointer to the second navigation context.
dvdnav_dup(t) == ForwardOpen(t, "dvdnav_dup", "navdup")
\* dvdnav_free_dup and dvdnav_close take any POINTER(_DVDNavT): the pointer
\* dvdnav_open filled in, or the one dvdnav_dup did.
dvdnav_free_dup(t) ==
    \E h \in {"nav", "navdup"} : ForwardClose(t, "dvdnav_free_dup", h)
dvdnav_close(t) ==
    \E h \in {"nav", "navdup"} : ForwardClose(t, "dvdnav_close", h)
dvdnav_get_next_block(t) ==
    \E h \in {"nav", "navdup"} : ForwardOp(t, "dvdnav_get_next_block", h)

\* The native function returns and ctypes converts the result (restype), or
\* the access to a field is over.
\* An open reports success (a pointer, or DVDNAV_STATUS_OK) or failure (NULL,
\* or DVDNAV_STATUS_ERR); the pointer is handed to the host as it is.  A close
\* of an open handle destroys it; dvdnav_close also releases the reader of
\* the navigation context, which dvdnav_free_dup leaves to the context the
\* copy was made of.  Operations leave the lifecycle alone.
NativeReturn(t) ==
    /\ InFlight(t)
    /\ LET c == tpc[t] IN
       \/ /\ c.kind = "open"
          /\ \E ok \in BOOLEAN :
               IF ok
               THEN /\ hstate' = [hstate EXCEPT
                                    ![c.h] = "Open",
                                    !["navrd"] = IF c.h = "nav" THEN "Open" ELSE @]
                    /\ ptr' = [ptr EXCEPT
                                    ![c.h] = "addr",
                                    !["navrd"] = IF c.h = "nav" THEN "addr" ELSE @]
               ELSE /\ ptr' = [ptr EXCEPT ![c.h] = "null"]
                    /\ UNCHANGED hstate
       \/ /\ c.kind \in {"op", "field"}
          /\ UNCHANGED <<hstate, ptr>>
       \/ /\ c.kind = "close"
          /\ hstate' = [g \in Handles |->
                          IF hstate[g] = "Open"
                             /\ (g = c.h \/ (c.fn = "dvdnav_close" /\ g = "navrd"
                                                /\ hstate[c.h] = "Open"))
                          THEN "Closed" ELSE hstate[g]]
          /\ UNCHANGED ptr
    /\ tpc' = [tpc EXCEPT ![t] = Idle]
    /\ UNCHANGED <<inuse, closes, reg>>
    /\ UNCHANGED <<bvars, lvars>>
    /\ UNCHANGED ivars

\* The argument of a stream open is a bare pointer: neither the function
\* object nor the returned handle keeps a reference to the callback record,
\* so it is freed as soon as the host drops its own reference.
DropRegistration(r) ==
    /\ r[1] \in HandlesOf(inuse)
    /\ reg[r] = "alive"
    /\ \A u \in Threads : ~(tpc[u].kind = "open" /\ tpc[u].h = r[1])
    /\ reg' = [reg EXCEPT ![r] = "released"]
    /\ UNCHANGED <<inuse, hstate, ptr, closes, tpc>>
    /\ UNCHANGED <<bvars, lvars>>
    /\ UNCHANGED ivars

HInit ==
    /\ inuse \in Scenarios
    /\ hstate = [h \in Handles |-> "Unopened"]
    /\ ptr = [h \in Handles |-> "unset"]
    /\ closes = [h \in Handles |-> 0]
    /\ reg = [r \in Registrations |-> "none"]
    /\ tpc = [t \in Threads |-> Idle]


(***************************************************************************)
(* Part 2.  Module initialisation.                                         *)
(*                                                                         *)
(* Importing a binding module runs its body: first the import of the       *)
(* module it depends on (dvdread imports dvdcss, dvdnav imports dvdread),  *)
(* then the platform selection that loads the shared library, then one     *)
(* symbol lookup per bound entry point (dvd_open = _libdvdread.DVDOpen),   *)
(* then the trailing _fields_ assignments.  An exception raised anywhere   *)
(* ends the body of every module on the import stack.                      *)
(***************************************************************************)

\* Values of os.name.
OSNames == {"posix", "nt", "java"}

\* The exceptions of initialisation.
WindowsError == "Windows support not yet implemented. Sorry!"
UnsupportedError == "Unsupported operating system"
LoadError == "OSError"
SymbolError == "AttributeError"

\* The branch of `if os.name == 'posix': ... elif os.name == 'nt': ... else:`.
PlatformDefaultPosix(os) == IF os = "nt" THEN "nt" ELSE "posix"

Platform(os) ==
    IF os = "posix" THEN "posix"
    ELSE IF os = "nt" THEN "nt"
    ELSE "unsupported"

\* Modules that import nothing of one another.
DependsOnNothing(m) == "none"

\* `from dvdcss import ...` in dvdread.py, `from dvdread import ...` in
\* dvdnav.py; dvdcss.py imports only ctypes and os.
DependsOn(m) ==
    CASE m = "dvdcss" -> "none"
      [] m = "dvdread" -> "dvdcss"
      [] m = "dvdnav" -> "dvdread"

\* A dvdcss.py with a Windows branch that loads a library.
PlatformBranchWindows(m, os) ==
    LET pf == Platform(os) IN
    CASE m = "dvdcss" ->
           IF pf = "posix" THEN [libs |-> <<"libdvdcss.so.2">>, raises |-> "none"]
           ELSE IF pf = "nt" THEN [libs |-> <<"libdvdcss-2.dll">>, raises |-> "none"]
           ELSE [libs |-> <<>>, raises |-> UnsupportedError]
      [] m = "dvdread" ->
           IF pf = "posix" THEN [libs |-> <<"libdvdread.so.8">>, raises |-> "none"]
           ELSE IF pf = "nt"
                THEN [libs |-> <<"libvlccore.dll", "libdvdread_plugin.dll">>,
                      raises |-> "none"]
           ELSE [libs |-> <<>>, raises |-> UnsupportedError]
      [] m = "dvdnav" ->
           IF pf = "posix" THEN [libs |-> <<"libdvdnav.so.4">>, raises |-> "none"]
           ELSE IF pf = "nt"
                THEN [libs |-> <<"libdvdnav_plugin.dll">>, raises |-> "none"]
           ELSE [libs |-> <<>>, raises |-> UnsupportedError]

\* What the platform branch of module m does: the libraries it hands to
\* ctypes.CDLL, in order, or the error it raises.
PlatformBranch(m, os) ==
    LET pf == Platform(os) IN
    CASE m = "dvdcss" ->
           IF pf = "posix" THEN [libs |-> <<"libdvdcss.so.2">>, raises |-> "none"]
           ELSE IF pf = "nt" THEN [libs |-> <<>>, raises |-> WindowsError]
           ELSE [libs |-> <<>>, raises |-> UnsupportedError]
      [] m = "dvdread" ->
           IF pf = "posix" THEN [libs |-> <<"libdvdread.so.8">>, raises |-> "none"]
           ELSE IF pf = "nt"
                THEN [libs |-> <<"libvlccore.dll", "libdvdread_plugin.dll">>,
                      raises |-> "none"]
           ELSE [libs |-> <<>>, raises |-> UnsupportedError]
      [] m = "dvdnav" ->
           IF pf = "posix" THEN [libs |-> <<"libdvdnav.so.4">>, raises |-> "none"]
           ELSE IF pf = "nt"
                THEN [libs |-> <<"libdvdnav_plugin.dll">>, raises |-> "none"]
           ELSE [libs |-> <<>>, raises |-> UnsupportedError]

\* The number of `name = _lib<module>.<symbol>` statements of each module.
NSymbolsDvdcss == 8
NSymbolsDvdread == 58
NSymbolsDvdnav == 86
NSymbols(m) ==
    CASE m = "dvdcss" -> NSymbolsDvdcss
      [] m = "dvdread" -> NSymbolsDvdread
      [] m = "dvdnav" -> NSymbolsDvdnav

Top == stack[Len(stack)]

\* An importer that carries on after the failure of a module body: only the
\* failing module is abandoned.
RaiseSwallowed(e) ==
    /\ err' = e
    /\ pos' = [pos EXCEPT ![Top] = "failed"]
    /\ stack' = SubSeq(stack, 1, Len(stack) - 1)

\* An exception leaves the body of every module being imported; none of them
\* stays in sys.modules.
Raise(e) ==
    /\ err' = e
    /\ pos' = [m \in Modules |->
                 IF \E i \in 1..Len(stack) : stack[i] = m THEN "failed" ELSE pos[m]]
    /\ stack' = <<>>

\* One class statement or _fields_ statement of a module body:
\*   "shell"      class X(ctypes.Structure) with a docstring only
\*   "class"      class X(ctypes.Structure) with _fields_ in its body
\*   "patch"      X._fields_ = [...]
\*   "append"     X._fields_.append(...)
\*   "append_nt"  the same under `if os.name == 'nt':`
\* byval: the struct classes the field list holds by value (as a field or as
\* the element of an array field); after: the number of symbol lookups of
\* the module that come before the statement.
S(kind, name, byval, after) ==
    [kind |-> kind, name |-> name, byval |-> byval, after |-> after]

\* The class statements and _fields_ statements of dvdcss.py, in source
\* order.
Body_dvdcss ==
    <<S("class", "_IOVec", {}, 0),
      S("shell", "_DVDTitle", {}, 0),
      S("patch", "_DVDTitle", {}, 0),
      S("class", "_CSS", {}, 0),
      S("shell", "_DVDCSSS", {}, 0),
      S("class", "_DVDCSSStreamCB", {}, 0),
      S("patch", "_DVDCSSS", {"_CSS"}, 8),
      S("append_nt", "_DVDCSSS", {}, 8),
      S("append_nt", "_DVDCSSS", {}, 8),
      S("append_nt", "_DVDCSSS", {}, 8),
      S("append", "_DVDCSSS", {}, 8),
      S("append", "_DVDCSSS", {}, 8)>>

\* ... of dvdread.py ...
Body_dvdread ==
    <<S("shell", "_DVDInputS", {}, 0),
      S("class", "_DVDReaderDeviceS", {}, 0),
      S("shell", "_DVDFileS", {}, 0),
      S("shell", "_DVDReaderS", {}, 0),
      S("class", "_GetBitsStateT", {}, 0),
      S("class", "_DVDReaderStreamCB", {}, 2),
      S("class", "_DVDLoggerCB", {}, 2),
      S("class", "_DVDStatT", {}, 2),
      S("class", "_DVDTimeT", {}, 22),
      S("class", "_VMCmdT", {}, 22),
      S("class", "_VideoAttrT", {}, 22),
      S("class", "_Karaoke", {}, 22),
      S("class", "_Surround", {}, 22),
      S("class", "_AppInfo", {"_Karaoke", "_Surround"}, 22),
      S("class", "_AudioAttrT", {"_AppInfo"}, 22),
      S("class", "_MultichannelExtT", {}, 22),
      S("class", "_SubPAttrT", {}, 22),
      S("class", "_PGCCommandTblT", {}, 22),
      S("class", "_CellPlaybackT", {"_DVDTimeT"}, 22),
      S("class", "_CellPositionT", {}, 22),
      S("class", "_UserOpsT", {}, 22),
      S("class", "_PGCT", {"_DVDTimeT", "_UserOpsT"}, 22),
      S("class", "_PGCISrPT", {}, 22),
      S("class", "_PGCITT", {}, 22),
      S("class", "_PGCILUT", {}, 22),
      S("class", "_PGCIUTT", {}, 22),
      S("class", "_CellAdrT", {}, 22),
      S("class", "_CAdTT", {}, 22),
      S("class", "_VOBUAdMapT", {}, 22),
      S("class", "_VMGIMatT", {"_AudioAttrT", "_SubPAttrT", "_VideoAttrT"}, 22),
      S("class", "_PlaybackTypeT", {}, 22),
      S("class", "_TitleInfoT", {"_PlaybackTypeT"}, 22),
      S("class", "_TtSrPTT", {}, 22),
      S("class", "_PtlMaITCountryT", {}, 22),
      S("class", "_PtlMaITT", {}, 22),
      S("class", "_VTSAttributesT", {"_AudioAttrT", "_SubPAttrT", "_VideoAttrT"}, 22),
      S("class", "_VTSAtrTT", {}, 22),
      S("class", "_TxtDtT", {}, 22),
      S("class", "_TxtDtLUT", {}, 22),
      S("class", "_TxtDtMgIT", {}, 22),
      S("class", "_VTSIMaTT", {"_AudioAttrT", "_MultichannelExtT", "_SubPAttrT", "_VideoAttrT"}, 22),
      S("class", "_PtTInfoT", {}, 22),
      S("class", "_TTUT", {}, 22),
      S("class", "_VTSPtTSrPTT", {}, 22),
      S("class", "_VTSTMapT", {}, 22),
      S("class", "_VTSTMapTT", {}, 22),
      S("class", "_IFOHandleT", {}, 22),
      S("class", "_PCIGIT", {"_DVDTimeT", "_UserOpsT"}, 54),
      S("class", "_NSmlAglIT", {}, 54),
      S("class", "_HLGIT", {}, 54),
      S("class", "_BtnColITT", {}, 54),
      S("class", "_BtnIT", {"_VMCmdT"}, 54),
      S("class", "_HLIT", {"_BtnColITT", "_BtnIT", "_HLGIT"}, 54),
      S("class", "_PCIT", {"_HLIT", "_NSmlAglIT", "_PCIGIT"}, 54),
      S("class", "_DSIGIT", {"_DVDTimeT"}, 54),
      S("class", "_VOBA", {}, 54),
      S("class", "_SmlPBIT", {"_VOBA"}, 54),
      S("class", "_SmlAglDataT", {}, 54),
      S("class", "_SmlAglIT", {"_SmlAglDataT"}, 54),
      S("class", "_VOBUSrIT", {}, 54),
      S("class", "_SyncIT", {}, 54),
      S("class", "_DSIT", {"_DSIGIT", "_SmlAglIT", "_SmlPBIT", "_SyncIT", "_VOBUSrIT"}, 54),
      S("patch", "_DVDInputS", {}, 58),
      S("patch", "_DVDFileS", {}, 58),
      S("patch", "_DVDReaderS", {"_DVDLoggerCB"}, 58)>>

\* ... and of dvdnav.py.
Body_dvdnav ==
    <<S("class", "_ReadCacheChunkS", {}, 0),
      S("shell", "_ReadCacheS", {}, 0),
      S("patch", "_ReadCacheS", {"_ReadCacheChunkS"}, 0),
      S("class", "_RegistersT", {}, 0),
      S("class", "_DVDNavHighlightAreaT", {}, 0),
      S("class", "_DVDTimecodeT", {}, 0),
      S("shell", "_DVDAudioAttributesT", {}, 0),
      S("patch", "_DVDAudioAttributesT", {}, 0),
      S("shell", "_DVDVideoAttributesT", {}, 0),
      S("patch", "_DVDVideoAttributesT", {}, 0),
      S("class", "_DVDStateT", {"_RegistersT"}, 0),
      S("class", "_VMPositionS", {}, 0),
      S("shell", "_VMT", {}, 0),
      S("class", "_DVDNavVOBUS", {}, 0),
      S("shell", "_DVDNavS", {}, 0),
      S("shell", "_DVDNavLoggerCB", {}, 0),
      S("patch", "_DVDNavLoggerCB", {}, 0),
      S("patch", "_VMT", {"_DVDNavLoggerCB", "_DVDReaderStreamCB", "_DVDStateT"}, 86),
      S("patch", "_DVDNavS", {"_DSIT", "_DVDNavLoggerCB", "_DVDNavVOBUS", "_PCIT", "_VMPositionS"}, 86),
      S("class", "_DVDNavStillEventT", {}, 86),
      S("class", "_DVDNavSPUStreamChangeEventT", {}, 86),
      S("class", "_DVDNavAudioStreamChangeEventT", {}, 86),
      S("class", "_DVDNavVTSChangeEventT", {}, 86),
      S("class", "_DVDNavCellChangeEventT", {}, 86),
      S("class", "_DVDNavHighlightEventT", {}, 86)>>

\* ClassStatements without the trailing patches of dvdread.py.
ClassStatementsUnpatched(m) ==
    CASE m = "dvdcss" -> Body_dvdcss
      [] m = "dvdread" -> SubSeq(Body_dvdread, 1, Len(Body_dvdread) - 3)
      [] m = "dvdnav" -> Body_dvdnav

\* ClassStatements with the patch of _VMT moved up to just before the patch
\* of _DVDNavLoggerCB, a shell that _VMT holds by value.
ClassStatementsPatchEarly(m) ==
    CASE m = "dvdcss" -> Body_dvdcss
      [] m = "dvdread" -> Body_dvdread
      [] m = "dvdnav" ->
           LET B == Body_dvdnav
               i == CHOOSE k \in 1..Len(B) :
                      B[k].name = "_DVDNavLoggerCB" /\ B[k].kind = "shell"
               j == CHOOSE k \in 1..Len(B) :
                      B[k].name = "_VMT" /\ B[k].kind = "patch"
           IN SubSeq(B, 1, i) \o <<[B[j] EXCEPT !.after = B[i].after]>>
                  \o SubSeq(B, i + 1, j - 1) \o SubSeq(B, j + 1, Len(B))

ClassStatements(m) ==
    CASE m = "dvdcss" -> Body_dvdcss
      [] m = "dvdread" -> Body_dvdread
      [] m = "dvdnav" -> Body_dvdnav

\* The statements of a module body the interpreter executes under the given
\* os.name: those under `if os.name == 'nt':` only on Windows.
ExecutedOn(m, os) ==
    LET B == ClassStatements(m)
        Runs(st) == st.kind # "append_nt" \/ os = "nt"
    IN SelectSeq(B, Runs)

Executed(m) == ExecutedOn(m, osname)

\* The struct classes of a module, all struct classes, and the shells.
ClassesOf(m) == {ClassStatements(m)[i].name : i \in 1..Len(ClassStatements(m))}
AllClasses == UNION {ClassesOf(m) : m \in Modules}
Shells ==
    UNION {{ClassStatements(m)[i].name :
              i \in {j \in 1..Len(ClassStatements(m)) :
                       ClassStatements(m)[j].kind = "shell"}} : m \in Modules}
ModuleOf(c) == CHOOSE m \in Modules : c \in ClassesOf(m)

\* The classes a class holds by value, from the statement that sets its
\* field list.
ByValue(c) ==
    UNION {LET body == ClassStatements(m) IN
           UNION {body[i].byval :
                    i \in {j \in 1..Len(body) :
                             /\ body[j].name = c
                             /\ body[j].kind \in {"class", "patch"}}} :
             m \in Modules}

\* _RegistersT uses ctypes.c_time_t, which only newer interpreters have.
NeedsTimeT(c) == c = "_RegistersT"

NameError == "NameError"
FinalError == "AttributeError: _fields_ is final"

\* A class not yet made by its class statement.
Undeclared ==
    [declared |-> FALSE, assigned |-> 0, final |-> FALSE, at |-> 0, appended |-> 0]

\* The next class or _fields_ statement of module m is the next statement of
\* its body (no symbol lookup comes before it).
StatementDue(m) ==
    /\ nstmts[m] < Len(Executed(m))
    /\ Executed(m)[nstmts[m] + 1].after = nlookups[m]

\* What a statement that does not raise does to the classes: a class
\* statement with _fields_ and a _fields_ assignment make ctypes compute the
\* layout and mark the class, and every class it holds by value, as final.
After(cs, st, tk) ==
    CASE st.kind = "shell" -> [cs EXCEPT ![st.name].declared = TRUE]
      [] st.kind = "class" ->
           [n \in DOMAIN cs |->
              IF n = st.name
              THEN [declared |-> TRUE, assigned |-> 1, final |-> TRUE,
                    at |-> tk + 1, appended |-> 0]
              ELSE IF n \in st.byval THEN [cs[n] EXCEPT !.final = TRUE]
              ELSE cs[n]]
      [] st.kind = "patch" ->
           [n \in DOMAIN cs |->
              IF n = st.name
              THEN [cs[n] EXCEPT !.assigned = @ + 1, !.final = TRUE, !.at = tk + 1]
              ELSE IF n \in st.byval THEN [cs[n] EXCEPT !.final = TRUE]
              ELSE cs[n]]
      [] st.kind \in {"append", "append_nt"} ->
           [cs EXCEPT ![st.name].appended = @ + 1]

\* The _fields_ assignments a statement makes.
Ticks(st) == IF st.kind \in {"class", "patch"} THEN 1 ELSE 0

\* Assigning a field list to class c: ctypes computes the layout, marks the
\* class and every class held by value as final, and refuses a class that is
\* final already.
AssignFields(st) ==
    IF ~cstate[st.name].declared \/ \E b \in st.byval : ~cstate[b].declared
    THEN /\ Raise(NameError)
         /\ UNCHANGED <<nstmts, cstate, tick>>
    ELSE IF cstate[st.name].final
    THEN /\ Raise(FinalError)
         /\ UNCHANGED <<nstmts, cstate, tick>>
    ELSE /\ cstate' = After(cstate, st, tick)
         /\ tick' = tick + Ticks(st)
         /\ nstmts' = [nstmts EXCEPT ![Top] = @ + 1]
         /\ UNCHANGED <<stack, pos, err>>

\* The next class or _fields_ statement of the module body.
ClassStatement ==
    /\ stack # <<>>
    /\ pos[Top] = "bind"
    /\ StatementDue(Top)
    /\ LET st == Executed(Top)[nstmts[Top] + 1] IN
       CASE st.kind = "shell" ->
              /\ cstate' = After(cstate, st, tick)
              /\ nstmts' = [nstmts EXCEPT ![Top] = @ + 1]
              /\ UNCHANGED <<stack, pos, err, tick>>
         [] st.kind = "class" ->
              \E has \in BOOLEAN :
                IF NeedsTimeT(st.name) /\ ~has
                THEN /\ Raise(SymbolError)
                     /\ UNCHANGED <<nstmts, cstate, tick>>
                ELSE /\ has
                     /\ cstate' = After(cstate, st, tick)
                     /\ tick' = tick + Ticks(st)
                     /\ nstmts' = [nstmts EXCEPT ![Top] = @ + 1]
                     /\ UNCHANGED <<stack, pos, err>>
         [] st.kind = "patch" -> AssignFields(st)
         [] st.kind \in {"append", "append_nt"} ->
              IF cstate[st.name].assigned = 0
              THEN /\ Raise(SymbolError)
                   /\ UNCHANGED <<nstmts, cstate, tick>>
              ELSE /\ cstate' = After(cstate, st, tick)
                   /\ nstmts' = [nstmts EXCEPT ![Top] = @ + 1]
                   /\ UNCHANGED <<stack, pos, err, tick>>
    /\ UNCHANGED <<osname, entry, ready, loaded, nlookups, constructed>>
    /\ UNCHANGED <<hvars, lvars>>
    /\ UNCHANGED ivars

\* The host makes an instance of a shell class of a module it has imported;
\* making an instance marks the class as final.
Construct ==
    /\ stack = <<>>
    /\ \E c \in Shells :
         /\ ModuleOf(c) \in ready
         /\ c \notin constructed
         /\ constructed' = constructed \cup {c}
         /\ cstate' = [cstate EXCEPT ![c].final = TRUE]
    /\ UNCHANGED <<osname, entry, stack, pos, ready, loaded, nlookups, err>>
    /\ UNCHANGED <<nstmts, tick>>
    /\ UNCHANGED <<hvars, lvars>>
    /\ UNCHANGED ivars

\* No class statement executed.
SInit ==
    /\ nstmts = [m \in Modules |-> 0]
    /\ cstate = [c \in AllClasses |-> Undeclared]
    /\ tick = 0
    /\ constructed = {}

\* The statements executed by `import dvdnav` on posix, in the order they
\* run: the body of dvdcss, then that of dvdread, then that of dvdnav.
PosixStatements ==
    ExecutedOn("dvdcss", "posix") \o ExecutedOn("dvdread", "posix")
        \o ExecutedOn("dvdnav", "posix")

\* The classes and the number of _fields_ assignments after the first k of
\* them have run, none raising: a class is declared by its class statement,
\* its field list is assigned by a class statement with _fields_ or by a
\* _fields_ assignment, which also makes it and the classes it holds by
\* value final.
RanTo(k) ==
    LET P == SubSeq(PosixStatements, 1, k)
        Assigning(i) == P[i].kind \in {"class", "patch"}
        TickAt(i) == Cardinality({j \in 1..i : Assigning(j)})
        Sets(c) == {i \in 1..k : P[i].name = c /\ Assigning(i)}
        Last(c) == CHOOSE i \in Sets(c) : \A j \in Sets(c) : j <= i
    IN [cs |-> [c \in AllClasses |->
                  [declared |-> \E i \in 1..k :
                                   P[i].name = c /\ P[i].kind \in {"shell", "class"},
                   assigned |-> Cardinality(Sets(c)),
                   final |-> \/ Sets(c) # {}
                             \/ \E i \in 1..k : Assigning(i) /\ c \in P[i].byval,
                   at |-> IF Sets(c) = {} THEN 0 ELSE TickAt(Last(c)),
                   appended |-> Cardinality({i \in 1..k :
                                    /\ P[i].name = c
                                    /\ P[i].kind \in {"append", "append_nt"}})]],
        tick |-> TickAt(k)]

\* The most libraries the process loads before the host stops importing.
MaxLoads == 4

\* A module body that starts to run starts from nothing: a module whose body
\* raised is not kept in sys.modules, so the next import statement that
\* names it runs the body again from its first line, makes its classes anew
\* and looks every symbol up again.  The classes of the earlier run are
\* gone, and their _fields_ assignments are no longer counted.
Restart(m) ==
    LET mine == ClassesOf(m) IN
    [nlookups |-> [x \in Modules |-> IF x = m THEN 0 ELSE nlookups[x]],
     nstmts |-> [x \in Modules |-> IF x = m THEN 0 ELSE nstmts[x]],
     cstate |-> [c \in AllClasses |->
                   IF c \in mine THEN Undeclared ELSE cstate[c]],
     tick |-> Cardinality({c \in AllClasses \ mine : cstate[c].assigned > 0})]

\* The host program's import statement.  A module that has been imported is
\* taken from sys.modules; any other module's body runs, also when an
\* earlier import of it has raised (the exception the host caught is gone).
Import(m) ==
    /\ stack = <<>>
    /\ m \notin ready
    /\ Len(loaded) < MaxLoads
    /\ entry' = m
    /\ stack' = <<m>>
    /\ pos' = [pos EXCEPT ![m] = "import"]
    /\ err' = "none"
    /\ LET r == Restart(m) IN
         /\ nlookups' = r.nlookups
         /\ nstmts' = r.nstmts
         /\ cstate' = r.cstate
         /\ tick' = r.tick
    /\ UNCHANGED <<osname, ready, loaded, constructed>>
    /\ UNCHANGED <<hvars, lvars>>
    /\ UNCHANGED ivars

\* The first statements of a module body: the import of the module it
\* depends on, whose body runs now unless it has been imported before.
ImportDependency ==
    /\ stack # <<>>
    /\ pos[Top] = "import"
    /\ LET d == DependsOn(Top) IN
       IF d = "none" \/ d \in ready
       THEN /\ pos' = [pos EXCEPT ![Top] = "platform"]
            /\ UNCHANGED <<stack, nlookups, nstmts, cstate, tick>>
       ELSE /\ pos' = [pos EXCEPT ![d] = "import"]
            /\ stack' = Append(stack, d)
            /\ LET r == Restart(d) IN
                 /\ nlookups' = r.nlookups
                 /\ nstmts' = r.nstmts
                 /\ cstate' = r.cstate
                 /\ tick' = r.tick
    /\ UNCHANGED <<osname, entry, ready, loaded, err, constructed>>
    /\ UNCHANGED <<hvars, lvars>>
    /\ UNCHANGED ivars

\* The platform selection.  ctypes.CDLL raises OSError for a library that
\* cannot be loaded: of the libraries of the branch, the first k load.
SelectPlatform ==
    /\ stack # <<>>
    /\ pos[Top] = "platform"
    /\ LET b == PlatformBranch(Top, osname) IN
       IF b.raises # "none"
       THEN /\ Raise(b.raises)
            /\ UNCHANGED loaded
       ELSE \E k \in 0..Len(b.libs) :
              /\ loaded' = loaded \o SubSeq(b.libs, 1, k)
              /\ IF k = Len(b.libs)
                 THEN /\ pos' = [pos EXCEPT ![Top] = "bind"]
                      /\ UNCHANGED <<stack, err>>
                 ELSE Raise(LoadError)
    /\ UNCHANGED <<osname, entry, ready, nlookups>>
    /\ UNCHANGED svars
    /\ UNCHANGED <<hvars, lvars>>
    /\ UNCHANGED ivars

\* One `name = _lib.symbol` statement: the attribute access looks the symbol
\* up in the loaded library and raises AttributeError if it is not there.
LookupSymbol ==
    /\ stack # <<>>
    /\ pos[Top] = "bind"
    /\ nlookups[Top] < NSymbols(Top)
    /\ ~StatementDue(Top)
    /\ nlookups' = [nlookups EXCEPT ![Top] = @ + 1]
    /\ \E found \in BOOLEAN :
         IF found
         THEN UNCHANGED <<stack, pos, err>>
         ELSE Raise(SymbolError)
    /\ UNCHANGED <<osname, entry, ready, loaded>>
    /\ UNCHANGED svars
    /\ UNCHANGED <<hvars, lvars>>
    /\ UNCHANGED ivars

\* The end of a module body: the module is initialised and its importer
\* goes on.
FinishModule ==
    /\ stack # <<>>
    /\ pos[Top] = "bind"
    /\ nlookups[Top] = NSymbols(Top)
    /\ nstmts[Top] = Len(Executed(Top))
    /\ pos' = [pos EXCEPT ![Top] = "done"]
    /\ ready' = ready \cup {Top}
    /\ stack' = SubSeq(stack, 1, Len(stack) - 1)
    /\ UNCHANGED <<osname, entry, loaded, nlookups, err>>
    /\ UNCHANGED svars
    /\ UNCHANGED <<hvars, lvars>>
    /\ UNCHANGED ivars

BInit ==
    /\ osname \in OSNames
    /\ entry = "none"
    /\ stack = <<>>
    /\ pos = [m \in Modules |-> "unstarted"]
    /\ ready = {}
    /\ loaded = <<>>
    /\ nlookups = [m \in Modules |-> 0]
    /\ err = "none"
    /\ SInit

NextBind ==
    \/ \E m \in Modules : Import(m)
    \/ ImportDependency
    \/ SelectPlatform
    \/ LookupSymbol
    \/ ClassStatement
    \/ FinishModule
    \/ Construct

(***************************************************************************)
(* Part 3.  Struct descriptors and the layout ctypes gives them.           *)
(*                                                                         *)
(* A ctypes.Structure subclass gets its layout when _fields_ is assigned,   *)
(* as the module body runs its class statements in order: ctypes walks the *)
(* list once, placing each field at the running offset                     *)
(* rounded up to the field type's alignment (or to _pack_, if the class    *)
(* sets one), packing bitfields into the storage unit opened by the first  *)
(* of a run, and finally rounding the size up to the largest alignment.    *)
(* The sizes below are those of the x86-64 POSIX platform the modules are  *)
(* written for.                                                            *)
(***************************************************************************)

\* ctypes types: <<"int", size, kind>> has alignment = size; the kind selects
\* the getter and setter of a field of the type.
c_char == <<"int", 1, "char">>
c_byte == <<"int", 1, "signed">>
c_ubyte == <<"int", 1, "unsigned">>
c_uint8 == <<"int", 1, "unsigned">>
c_uint16 == <<"int", 2, "unsigned">>
c_int == <<"int", 4, "signed">>
c_uint == <<"int", 4, "unsigned">>
c_uint32 == <<"int", 4, "unsigned">>
c_int64 == <<"int", 8, "signed">>
c_uint64 == <<"int", 8, "unsigned">>
c_void_p == <<"int", 8, "address">>
CFUNCTYPE == <<"ptr", "function">>
POINTER(pointee) == <<"ptr", pointee>>
Array(type, n) == <<"arr", type, n>>
Struct(name) == <<"struct", name>>

\* One entry of a _fields_ list: (name, type) or (name, type, bits).
F(name, type, bits) == [name |-> name, type |-> type, bits |-> bits]

_DVDTimeT ==
    <<
       F("hour", c_uint8, 0),
       F("minute", c_uint8, 0),
       F("second", c_uint8, 0),
       F("frame_u", c_uint8, 0)
    >>

_VMCmdT ==
    <<
       F("bytes", Array(c_uint8, 8), 0)
    >>

_VideoAttrT ==
    <<
       F("mpeg_version", c_ubyte, 2),
       F("video_format", c_ubyte, 2),
       F("display_aspect_ratio", c_ubyte, 2),
       F("permitted_df", c_ubyte, 2),
       F("line21_cc_1", c_ubyte, 1),
       F("line21_cc_2", c_ubyte, 1),
       F("unknown1", c_ubyte, 1),
       F("bit_rate", c_ubyte, 1),
       F("picture_size", c_ubyte, 2),
       F("letterboxed", c_ubyte, 1),
       F("film_mode", c_ubyte, 1)
    >>

_Karaoke ==
    <<
       F("unknown4", c_ubyte, 1),
       F("channel_assignment", c_ubyte, 3),
       F("version", c_ubyte, 2),
       F("mc_intro", c_ubyte, 1),
       F("mode", c_ubyte, 1)
    >>

_Surround ==
    <<
       F("unknown5", c_ubyte, 4),
       F("dolby_encoded", c_ubyte, 1),
       F("unknown6", c_ubyte, 3)
    >>

_AppInfo ==
    <<
       F("karaoke", Struct("_Karaoke"), 0),
       F("surround", Struct("_Surround"), 0)
    >>

_AudioAttrT ==
    <<
       F("audio_format", c_ubyte, 3),
       F("multichannel_extension", c_ubyte, 1),
       F("lang_type", c_ubyte, 2),
       F("application_mode", c_ubyte, 2),
       F("quantization", c_ubyte, 2),
       F("sample_frequency", c_ubyte, 2),
       F("unknown1", c_ubyte, 1),
       F("channels", c_ubyte, 3),
       F("lang_code", c_uint16, 0),
       F("lang_extension", c_uint8, 0),
       F("code_extension", c_uint8, 0),
       F("unknown3", c_uint8, 0),
       F("app_info", Struct("_AppInfo"), 0)
    >>

_MultichannelExtT ==
    <<
       F("zero1", c_ubyte, 7),
       F("ach0_gme", c_ubyte, 1),
       F("zero2", c_ubyte, 7),
       F("ach1_gme", c_ubyte, 1),
       F("zero3", c_ubyte, 4),
       F("ach2_gv1e", c_ubyte, 1),
       F("ach2_gv2e", c_ubyte, 1),
       F("ach2_gm1e", c_ubyte, 1),
       F("ach2_gm2e", c_ubyte, 1),
       F("zero4", c_ubyte, 4),
       F("ach3_gv1e", c_ubyte, 1),
       F("ach3_gv2e", c_ubyte, 1),
       F("ach3_gmAe", c_ubyte, 1),
       F("ach3_se2e", c_ubyte, 1),
       F("zero5", c_ubyte, 4),
       F("ach4_gv1e", c_ubyte, 1),
       F("ach4_gv2e", c_ubyte, 1),
       F("ach4_gmBe", c_ubyte, 1),
       F("ach4_seBe", c_ubyte, 1),
       F("zero6", Array(c_uint8, 19), 0)
    >>

_SubPAttrT ==
    <<
       F("code_mode", c_ubyte, 3),
       F("zero1", c_ubyte, 3),
       F("type", c_ubyte, 2),
       F("zero2", c_uint8, 0),
       F("lang_code", c_uint16, 0),
       F("lang_extension", c_uint8, 0),
       F("code_extension", c_uint8, 0)
    >>

_PGCCommandTblT ==
    <<
       F("nr_of_pre", c_uint16, 0),
       F("nr_of_post", c_uint16, 0),
       F("nr_of_cell", c_uint16, 0),
       F("last_byte", c_uint16, 0),
       F("pre_cmds", POINTER("_VMCmdT"), 0),
       F("post_cmds", POINTER("_VMCmdT"), 0),
       F("cell_cmds", POINTER("_VMCmdT"), 0)
    >>

_CellPlaybackT ==
    <<
       F("block_mode", c_ubyte, 2),
       F("block_type", c_ubyte, 2),
       F("seamless_play", c_ubyte, 1),
       F("interleaved", c_ubyte, 1),
       F("stc_discontinuity", c_ubyte, 1),
       F("seamless_angle", c_ubyte, 1),
       F("zero_1", c_ubyte, 1),
       F("playback_mode", c_ubyte, 1),
       F("restricted", c_ubyte, 1),
       F("cell_type", c_ubyte, 5),
       F("still_time", c_uint8, 0),
       F("cell_cmd_nr", c_uint8, 0),
       F("playback_time", Struct("_DVDTimeT"), 0),
       F("first_sector", c_uint32, 0),
       F("first_ilvu_end_sector", c_uint32, 0),
       F("last_vobu_start_sector", c_uint32, 0),
       F("last_sector", c_uint32, 0)
    >>

_CellPositionT ==
    <<
       F("vob_id_nr", c_uint16, 0),
       F("zero_1", c_uint8, 0),
       F("cell_nr", c_uint8, 0)
    >>

_UserOpsT ==
    <<
       F("zero", c_ubyte, 7),
       F("video_pres_mode_change", c_ubyte, 1),
       F("karaoke_audio_pres_mode_change", c_ubyte, 1),
       F("angle_change", c_ubyte, 1),
       F("subpic_stream_change", c_ubyte, 1),
       F("audio_stream_change", c_ubyte, 1),
       F("pause_on", c_ubyte, 1),
       F("still_off", c_ubyte, 1),
       F("button_select_or_activate", c_ubyte, 1),
       F("resume", c_ubyte, 1),
       F("chapter_menu_call", c_ubyte, 1),
       F("angle_menu_call", c_ubyte, 1),
       F("audio_menu_call", c_ubyte, 1),
       F("subpic_menu_call", c_ubyte, 1),
       F("root_menu_call", c_ubyte, 1),
       F("title_menu_call", c_ubyte, 1),
       F("backward_scan", c_ubyte, 1),
       F("forward_scan", c_ubyte, 1),
       F("next_pg_search", c_ubyte, 1),
       F("prev_or_top_pg_search", c_ubyte, 1),
       F("time_or_chapter_search", c_ubyte, 1),
       F("go_up", c_ubyte, 1),
       F("stop", c_ubyte, 1),
       F("title_play", c_ubyte, 1),
       F("chapter_search_or_play", c_ubyte, 1),
       F("title_or_time_play", c_ubyte, 1)
    >>

_PGCT ==
    <<
       F("zero_1", c_uint16, 0),
       F("nr_of_programs", c_uint8, 0),
       F("nr_of_cells", c_uint8, 0),
       F("playback_time", Struct("_DVDTimeT"), 0),
       F("prohibited_ops", Struct("_UserOpsT"), 0),
       F("audio_control", Array(c_uint16, 8), 0),
       F("subp_control", Array(c_uint32, 32), 0),
       F("next_pgc_nr", c_uint16, 0),
       F("prev_pgc_nr", c_uint16, 0),
       F("goup_pgc_nr", c_uint16, 0),
       F("pg_playback_mode", c_uint8, 0),
       F("still_time", c_uint8, 0),
       F("palette", Array(c_uint32, 16), 0),
       F("command_tbl_offset", c_uint16, 0),
       F("program_map_offset", c_uint16, 0),
       F("cell_playback_offset", c_uint16, 0),
       F("cell_position_offset", c_uint16, 0),
       F("command_tbl", POINTER("_PGCCommandTblT"), 0),
       F("program_map", POINTER("c_uint8"), 0),
       F("cell_playback", POINTER("_CellPlaybackT"), 0),
       F("cell_position", POINTER("_CellPositionT"), 0),
       F("ref_count", c_int, 0)
    >>

_PGCISrPT ==
    <<
       F("entry_id", c_uint8, 0),
       F("block_mode", c_ubyte, 2),
       F("block_type", c_ubyte, 2),
       F("zero_1", c_ubyte, 4),
       F("ptl_id_mask", c_uint16, 0),
       F("pgc_start_byte", c_uint32, 0),
       F("pgc", POINTER("_PGCT"), 0)
    >>

_PGCITT ==
    <<
       F("nr_of_pgci_srp", c_uint16, 0),
       F("zero_1", c_uint16, 0),
       F("last_byte", c_uint32, 0),
       F("pgci_srp", POINTER("_PGCISrPT"), 0),
       F("ref_count", c_int, 0)
    >>

_PGCILUT ==
    <<
       F("lang_code", c_uint16, 0),
       F("lang_extension", c_uint8, 0),
       F("exists", c_uint8, 0),
       F("lang_start_byte", c_uint32, 0),
       F("pgcit", POINTER("_PGCITT"), 0)
    >>

_PGCIUTT ==
    <<
       F("nr_of_lus", c_uint16, 0),
       F("zero_1", c_uint16, 0),
       F("last_byte", c_uint32, 0),
       F("lu", POINTER("_PGCILUT"), 0)
    >>

_CellAdrT ==
    <<
       F("vob_id", c_uint16, 0),
       F("cell_id", c_uint8, 0),
       F("zero_1", c_uint8, 0),
       F("start_sector", c_uint32, 0),
       F("last_sector", c_uint32, 0)
    >>

_CAdTT ==
    <<
       F("nr_of_vobs", c_uint16, 0),
       F("zero_1", c_uint16, 0),
       F("last_byte", c_uint32, 0),
       F("cell_adr_table", POINTER("_CellAdrT"), 0)
    >>

_VOBUAdMapT ==
    <<
       F("last_byte", c_uint32, 0),
       F("vobu_start_sectors", POINTER("c_uint32"), 0)
    >>

_VMGIMatT ==
    <<
       F("vmg_identifier", Array(c_char, 12), 0),
       F("vmg_last_sector", c_uint32, 0),
       F("zero_1", Array(c_uint8, 12), 0),
       F("vmgi_last_sector", c_uint32, 0),
       F("zero_2", c_uint8, 0),
       F("specification_version", c_uint8, 0),
       F("vmg_category", c_uint32, 0),
       F("vmg_nr_of_volumes", c_uint16, 0),
       F("vmg_this_volume_nr", c_uint16, 0),
       F("disc_side", c_uint8, 0),
       F("zero_3", Array(c_uint8, 19), 0),
       F("vmg_nr_of_title_sets", c_uint16, 0),
       F("provider_identifier", Array(c_char, 32), 0),
       F("vmg_pos_code", c_uint64, 0),
       F("zero_4", Array(c_uint8, 24), 0),
       F("vmgi_last_byte", c_uint32, 0),
       F("first_play_pgc", c_uint32, 0),
       F("zero_5", Array(c_uint8, 56), 0),
       F("vmgm_vobs", c_uint32, 0),
       F("tt_srpt", c_uint32, 0),
       F("vmgm_pgci_ut", c_uint32, 0),
       F("ptl_mait", c_uint32, 0),
       F("vts_atrt", c_uint32, 0),
       F("txtdt_mgi", c_uint32, 0),
       F("vmgm_c_adt", c_uint32, 0),
       F("vmgm_vobu_admap", c_uint32, 0),
       F("zero_6", Array(c_uint8, 32), 0),
       F("vmgm_video_attr", Struct("_VideoAttrT"), 0),
       F("zero_7", c_uint8, 0),
       F("nr_of_vmgm_audio_streams", c_uint8, 0),
       F("vmgm_audio_attr", Struct("_AudioAttrT"), 0),
       F("zero_8", Array(Struct("_AudioAttrT"), 7), 0),
       F("zero_9", Array(c_uint8, 17), 0),
       F("nr_of_vmgm_subp_streams", c_uint8, 0),
       F("vmgm_subp_attr", Struct("_SubPAttrT"), 0),
       F("zero_10", Array(Struct("_SubPAttrT"), 27), 0)
    >>

_PlaybackTypeT ==
    <<
       F("zero_1", c_ubyte, 1),
       F("multi_or_random_pgc_title", c_ubyte, 1),
       F("jlc_exists_in_cell_cmd", c_ubyte, 1),
       F("jlc_exists_in_prepost_cmd", c_ubyte, 1),
       F("jlc_exists_in_button_cmd", c_ubyte, 1),
       F("jlc_exists_in_tt_dom", c_ubyte, 1),
       F("chapter_search_or_play", c_ubyte, 1),
       F("title_or_time_play", c_ubyte, 1)
    >>

_TitleInfoT ==
    <<
       F("pb_ty", Struct("_PlaybackTypeT"), 0),
       F("nr_of_angles", c_uint8, 0),
       F("nr_of_ptts", c_uint16, 0),
       F("parental_id", c_uint16, 0),
       F("title_set_nr", c_uint8, 0),
       F("vts_ttn", c_uint8, 0),
       F("title_set_sector", c_uint32, 0)
    >>

_TtSrPTT ==
    <<
       F("nr_of_srpts", c_uint16, 0),
       F("zero_1", c_uint16, 0),
       F("last_byte", c_uint32, 0),
       F("title", POINTER("_TitleInfoT"), 0)
    >>

_PtlMaITCountryT ==
    <<
       F("country_code", c_uint16, 0),
       F("zero_1", c_uint16, 0),
       F("pf_ptl_mai_start_byte", c_uint16, 0),
       F("zero_2", c_uint16, 0),
       F("pf_ptl_mai", POINTER("c_uint16_Array"), 0)
    >>

_PtlMaITT ==
    <<
       F("nr_of_countries", c_uint16, 0),
       F("nr_of_vtss", c_uint16, 0),
       F("last_byte", c_uint32, 0),
       F("countries", POINTER("_PtlMaITCountryT"), 0)
    >>

_VTSAttributesT ==
    <<
       F("last_byte", c_uint32, 0),
       F("vts_cat", c_uint32, 0),
       F("vtsm_vobs_attr", Struct("_VideoAttrT"), 0),
       F("zero_1", c_uint8, 0),
       F("nr_of_vtsm_audio_streams", c_uint8, 0),
       F("vtsm_audio_attr", Struct("_AudioAttrT"), 0),
       F("zero_2", Array(Struct("_AudioAttrT"), 7), 0),
       F("zero_3", Array(c_uint8, 16), 0),
       F("zero_4", c_uint8, 0),
       F("nr_of_vtsm_subp_streams", c_uint8, 0),
       F("vtsm_subp_attr", Struct("_SubPAttrT"), 0),
       F("zero_5", Array(Struct("_SubPAttrT"), 27), 0),
       F("zero_6", Array(c_uint8, 2), 0),
       F("vtstt_vobs_video_attr", Struct("_VideoAttrT"), 0),
       F("zero_7", c_uint8, 0),
       F("nr_of_vtstt_audio_streams", c_uint8, 0),
       F("vtstt_audio_attr", Array(Struct("_AudioAttrT"), 8), 0),
       F("zero_8", Array(c_uint8, 16), 0),
       F("zero_9", c_uint8, 0),
       F("nr_of_vtstt_subp_streams", c_uint8, 0),
       F("vtstt_subp_attr", Array(Struct("_SubPAttrT"), 32), 0)
    >>

_VTSAtrTT ==
    <<
       F("nr_of_vtss", c_uint16, 0),
       F("zero_1", c_uint16, 0),
       F("last_byte", c_uint32, 0),
       F("vts", POINTER("_VTSAttributesT"), 0),
       F("vts_atrt_offsets", POINTER("c_uint32"), 0)
    >>

_TxtDtT ==
    <<
       F("last_byte", c_uint32, 0),
       F("offsets", Array(c_uint16, 100), 0),
       F("unknown", c_uint16, 0),
       F("zero_1", c_uint16, 0),
       F("type_of_info", c_uint8, 0),
       F("unknown1", c_uint8, 0),
       F("unknown2", c_uint8, 0),
       F("unknown3", c_uint8, 0),
       F("unknown4", c_uint8, 0),
       F("unknown5", c_uint8, 0),
       F("offset", c_uint16, 0),
       F("text", Array(c_char, 12), 0)
    >>

_TxtDtLUT ==
    <<
       F("lang_code", c_uint16, 0),
       F("zero_1", c_uint8, 0),
       F("char_set", c_uint8, 0),
       F("txtdt_start_byte", c_uint32, 0),
       F("txtdt", POINTER("_TxtDtT"), 0)
    >>

_TxtDtMgIT ==
    <<
       F("disc_name", Array(c_char, 12), 0),
       F("unknown1", c_uint16, 0),
       F("nr_of_language_units", c_uint16, 0),
       F("last_byte", c_uint32, 0),
       F("lu", POINTER("_TxtDtLUT"), 0)
    >>

_VTSIMaTT ==
    <<
       F("vts_identifier", Array(c_char, 12), 0),
       F("vts_last_sector", c_uint32, 0),
       F("zero_1", Array(c_uint8, 12), 0),
       F("vtsi_last_sector", c_uint32, 0),
       F("zero_2", c_uint8, 0),
       F("specification_version", c_uint8, 0),
       F("vts_category", c_uint32, 0),
       F("zero_3", c_uint16, 0),
       F("zero_4", c_uint16, 0),
       F("zero_5", c_uint8, 0),
       F("zero_6", Array(c_uint8, 19), 0),
       F("zero_7", c_uint16, 0),
       F("zero_8", Array(c_uint8, 32), 0),
       F("zero_9", c_uint64, 0),
       F("zero_10", Array(c_uint8, 24), 0),
       F("vtsi_last_byte", c_uint32, 0),
       F("zero_11", c_uint32, 0),
       F("zero_12", Array(c_uint8, 56), 0),
       F("vtsm_vobs", c_uint32, 0),
       F("vtstt_vobs", c_uint32, 0),
       F("vts_ptt_srpt", c_uint32, 0),
       F("vts_pgcit", c_uint32, 0),
       F("vtsm_pgci_ut", c_uint32, 0),
       F("vts_tmapt", c_uint32, 0),
       F("vtsm_c_adt", c_uint32, 0),
       F("vtsm_vobu_admap", c_uint32, 0),
       F("vts_c_adt", c_uint32, 0),
       F("vts_vobu_admap", c_uint32, 0),
       F("zero_13", Array(c_uint8, 24), 0),
       F("vtsm_video_attr", Struct("_VideoAttrT"), 0),
       F("zero_14", c_uint8, 0),
       F("nr_of_vtsm_audio_streams", c_uint8, 0),
       F("vtsm_audio_attr", Struct("_AudioAttrT"), 0),
       F("zero_15", Array(Struct("_AudioAttrT"), 7), 0),
       F("zero_16", Array(c_uint8, 17), 0),
       F("nr_of_vtsm_subp_streams", c_uint8, 0),
       F("vtsm_subp_attr", Struct("_SubPAttrT"), 0),
       F("zero_17", Array(Struct("_SubPAttrT"), 27), 0),
       F("zero_18", Array(c_uint8, 2), 0),
       F("vts_video_attr", Struct("_VideoAttrT"), 0),
       F("zero_19", c_uint8, 0),
       F("nr_of_vts_audio_streams", c_uint8, 0),
       F("vts_audio_attr", Array(Struct("_AudioAttrT"), 8), 0),
       F("zero_20", Array(c_uint8, 17), 0),
       F("nr_of_vts_subp_streams", c_uint8, 0),
       F("vts_subp_attr", Array(Struct("_SubPAttrT"), 32), 0),
       F("zero_21", c_uint16, 0),
       F("vts_mu_audio_attr", Array(Struct("_MultichannelExtT"), 8), 0)
    >>

_PtTInfoT ==
    <<
       F("pgcn", c_uint16, 0),
       F("pgn", c_uint16, 0)
    >>

_TTUT ==
    <<
       F("nr_of_ptts", c_uint16, 0),
       F("ptt", POINTER("_PtTInfoT"), 0)
    >>

_VTSPtTSrPTT ==
    <<
       F("nr_of_srpts", c_uint16, 0),
       F("zero_1", c_uint16, 0),
       F("last_byte", c_uint32, 0),
       F("title", POINTER("_TTUT"), 0),
       F("ttu_offset", POINTER("c_uint32"), 0)
    >>

_VTSTMapT ==
    <<
       F("tmu", c_uint8, 0),
       F("zero_1", c_uint8, 0),
       F("nr_of_entries", c_uint16, 0),
       F("map_ent", POINTER("c_uint32"), 0)
    >>

_VTSTMapTT ==
    <<
       F("nr_of_tmaps", c_uint16, 0),
       F("zero_1", c_uint16, 0),
       F("last_byte", c_uint32, 0),
       F("tmap", POINTER("_VTSTMapT"), 0),
       F("tmap_offset", POINTER("c_uint32"), 0)
    >>

_IFOHandleT ==
    <<
       F("vmgi_mat", POINTER("_VMGIMatT"), 0),
       F("tt_srpt", POINTER("_TtSrPTT"), 0),
       F("first_play_pgc", POINTER("_PGCT"), 0),
       F("ptl_mait", POINTER("_PtlMaITT"), 0),
       F("vts_atrt", POINTER("_VTSAtrTT"), 0),
       F("txtdt_mgi", POINTER("_TxtDtMgIT"), 0),
       F("pgci_ut", POINTER("_PGCIUTT"), 0),
       F("menu_c_adt", POINTER("_CAdTT"), 0),
       F("menu_vobu_admap", POINTER("_VOBUAdMapT"), 0),
       F("vtsi_mat", POINTER("_VTSIMaTT"), 0),
       F("vts_ptt_srpt", POINTER("_VTSPtTSrPTT"), 0),
       F("vts_pgcit", POINTER("_PGCITT"), 0),
       F("vts_tmapt", POINTER("_VTSTMapTT"), 0),
       F("vts_c_adt", POINTER("_CAdTT"), 0),
       F("vts_vobu_admap", POINTER("_VOBUAdMapT"), 0)
    >>

_PCIGIT ==
    <<
       F("nv_pck_lbn", c_uint32, 0),
       F("vobu_cat", c_uint16, 0),
       F("zero1", c_uint16, 0),
       F("vobu_uop_ctl", Struct("_UserOpsT"), 0),
       F("vobu_s_ptm", c_uint32, 0),
       F("vobu_e_ptm", c_uint32, 0),
       F("vobu_se_e_ptm", c_uint32, 0),
       F("e_eltm", Struct("_DVDTimeT"), 0),
       F("vobu_isrc", Array(c_char, 32), 0)
    >>

_NSmlAglIT ==
    <<
       F("nsml_agl_dsta", Array(c_uint32, 9), 0)
    >>

_HLGIT ==
    <<
       F("hli_ss", c_uint16, 0),
       F("hli_s_ptm", c_uint32, 0),
       F("hli_e_ptm", c_uint32, 0),
       F("btn_se_e_ptm", c_uint32, 0),
       F("zero1", c_ubyte, 2),
       F("btngr_ns", c_ubyte, 2),
       F("zero2", c_ubyte, 1),
       F("btngr1_dsp_ty", c_ubyte, 3),
       F("zero3", c_ubyte, 1),
       F("btngr2_dsp_ty", c_ubyte, 3),
       F("zero4", c_ubyte, 1),
       F("btngr3_dsp_ty", c_ubyte, 3),
       F("btn_ofn", c_uint8, 0),
       F("btn_ns", c_uint8, 0),
       F("nsl_btn_ns", c_uint8, 0),
       F("zero5", c_uint8, 0),
       F("fosl_btnn", c_uint8, 0),
       F("foac_btnn", c_uint8, 0)
    >>

_BtnColITT ==
    <<
       F("btn_coli", Array(Array(c_uint32, 3), 2), 0)
    >>

_BtnIT ==
    <<
       F("btn_coln", c_uint, 2),
       F("x_start", c_uint, 10),
       F("zero1", c_uint, 2),
       F("x_end", c_uint, 10),
       F("auto_action_mode", c_uint, 2),
       F("y_start", c_uint, 10),
       F("zero2", c_uint, 2),
       F("y_end", c_uint, 10),
       F("zero3", c_uint, 2),
       F("up", c_uint, 6),
       F("zero4", c_uint, 2),
       F("down", c_uint, 6),
       F("zero5", c_uint, 2),
       F("left", c_uint, 6),
       F("zero6", c_uint, 2),
       F("right", c_uint, 6),
       F("cmd", Struct("_VMCmdT"), 0)
    >>

_HLIT ==
    <<
       F("hl_gi", Struct("_HLGIT"), 0),
       F("btn_colit", Struct("_BtnColITT"), 0),
       F("btnit", Array(Struct("_BtnIT"), 36), 0)
    >>

_PCIT ==
    <<
       F("pci_gi", Struct("_PCIGIT"), 0),
       F("nsml_agli", Struct("_NSmlAglIT"), 0),
       F("hli", Struct("_HLIT"), 0),
       F("zero1", Array(c_uint8, 189), 0)
    >>

_DSIGIT ==
    <<
       F("nv_pck_scr", c_uint32, 0),
       F("nv_pck_lbn", c_uint32, 0),
       F("vobu_ea", c_uint32, 0),
       F("vobu_1stref_ea", c_uint32, 0),
       F("vobu_2ndref_ea", c_uint32, 0),
       F("vobu_3rdref_ea", c_uint32, 0),
       F("vobu_vob_idn", c_uint16, 0),
       F("zero1", c_uint8, 0),
       F("vobu_c_idn", c_uint8, 0),
       F("c_eltm", Struct("_DVDTimeT"), 0)
    >>

_VOBA ==
    <<
       F("stp_ptm1", c_uint32, 0),
       F("stp_ptm2", c_uint32, 0),
       F("gap_len1", c_uint32, 0),
       F("gap_len2", c_uint32, 0)
    >>

_SmlPBIT ==
    <<
       F("category", c_uint16, 0),
       F("ilvu_ea", c_uint32, 0),
       F("ilvu_sa", c_uint32, 0),
       F("size", c_uint16, 0),
       F("vob_v_s_s_ptm", c_uint32, 0),
       F("vob_v_e_e_ptm", c_uint32, 0),
       F("vob_a", Array(Struct("_VOBA"), 8), 0)
    >>

_SmlAglDataT ==
    <<
       F("address", c_uint32, 0),
       F("size", c_uint16, 0)
    >>

_SmlAglIT ==
    <<
       F("data", Array(Struct("_SmlAglDataT"), 9), 0)
    >>

_VOBUSrIT ==
    <<
       F("next_video", c_uint32, 0),
       F("fwda", Array(c_uint32, 19), 0),
       F("next_vobu", c_uint32, 0),
       F("prev_vobu", c_uint32, 0),
       F("bwda", Array(c_uint32, 19), 0),
       F("prev_video", c_uint32, 0)
    >>

_SyncIT ==
    <<
       F("a_synca", Array(c_uint16, 8), 0),
       F("sp_synca", Array(c_uint32, 32), 0)
    >>

_DSIT ==
    <<
       F("dsi_gi", Struct("_DSIGIT"), 0),
       F("sml_pbi", Struct("_SmlPBIT"), 0),
       F("sml_agli", Struct("_SmlAglIT"), 0),
       F("vobu_sri", Struct("_VOBUSrIT"), 0),
       F("synci", Struct("_SyncIT"), 0),
       F("zero1", Array(c_uint8, 471), 0)
    >>

\* The descriptors of the ifo_types.h and nav_types.h records, in the order
\* their class statements run (a nested class before the class around it).
ClassOrder ==
    <<"_DVDTimeT", "_VMCmdT", "_VideoAttrT", "_Karaoke",
      "_Surround", "_AppInfo", "_AudioAttrT", "_MultichannelExtT",
      "_SubPAttrT", "_PGCCommandTblT", "_CellPlaybackT", "_CellPositionT",
      "_UserOpsT", "_PGCT", "_PGCISrPT", "_PGCITT",
      "_PGCILUT", "_PGCIUTT", "_CellAdrT", "_CAdTT",
      "_VOBUAdMapT", "_VMGIMatT", "_PlaybackTypeT", "_TitleInfoT",
      "_TtSrPTT", "_PtlMaITCountryT", "_PtlMaITT", "_VTSAttributesT",
      "_VTSAtrTT", "_TxtDtT", "_TxtDtLUT", "_TxtDtMgIT",
      "_VTSIMaTT", "_PtTInfoT", "_TTUT", "_VTSPtTSrPTT",
      "_VTSTMapT", "_VTSTMapTT", "_IFOHandleT", "_PCIGIT",
      "_NSmlAglIT", "_HLGIT", "_BtnColITT", "_BtnIT",
      "_HLIT", "_PCIT", "_DSIGIT", "_VOBA",
      "_SmlPBIT", "_SmlAglDataT", "_SmlAglIT", "_VOBUSrIT",
      "_SyncIT", "_DSIT">>

StructNames == {ClassOrder[i] : i \in 1..Len(ClassOrder)}

Fields(name) ==
    CASE name = "_DVDTimeT" -> _DVDTimeT
      [] name = "_VMCmdT" -> _VMCmdT
      [] name = "_VideoAttrT" -> _VideoAttrT
      [] name = "_Karaoke" -> _Karaoke
      [] name = "_Surround" -> _Surround
      [] name = "_AppInfo" -> _AppInfo
      [] name = "_AudioAttrT" -> _AudioAttrT
      [] name = "_MultichannelExtT" -> _MultichannelExtT
      [] name = "_SubPAttrT" -> _SubPAttrT
      [] name = "_PGCCommandTblT" -> _PGCCommandTblT
      [] name = "_CellPlaybackT" -> _CellPlaybackT
      [] name = "_CellPositionT" -> _CellPositionT
      [] name = "_UserOpsT" -> _UserOpsT
      [] name = "_PGCT" -> _PGCT
      [] name = "_PGCISrPT" -> _PGCISrPT
      [] name = "_PGCITT" -> _PGCITT
      [] name = "_PGCILUT" -> _PGCILUT
      [] name = "_PGCIUTT" -> _PGCIUTT
      [] name = "_CellAdrT" -> _CellAdrT
      [] name = "_CAdTT" -> _CAdTT
      [] name = "_VOBUAdMapT" -> _VOBUAdMapT
      [] name = "_VMGIMatT" -> _VMGIMatT
      [] name = "_PlaybackTypeT" -> _PlaybackTypeT
      [] name = "_TitleInfoT" -> _TitleInfoT
      [] name = "_TtSrPTT" -> _TtSrPTT
      [] name = "_PtlMaITCountryT" -> _PtlMaITCountryT
      [] name = "_PtlMaITT" -> _PtlMaITT
      [] name = "_VTSAttributesT" -> _VTSAttributesT
      [] name = "_VTSAtrTT" -> _VTSAtrTT
      [] name = "_TxtDtT" -> _TxtDtT
      [] name = "_TxtDtLUT" -> _TxtDtLUT
      [] name = "_TxtDtMgIT" -> _TxtDtMgIT
      [] name = "_VTSIMaTT" -> _VTSIMaTT
      [] name = "_PtTInfoT" -> _PtTInfoT
      [] name = "_TTUT" -> _TTUT
      [] name = "_VTSPtTSrPTT" -> _VTSPtTSrPTT
      [] name = "_VTSTMapT" -> _VTSTMapT
      [] name = "_VTSTMapTT" -> _VTSTMapTT
      [] name = "_IFOHandleT" -> _IFOHandleT
      [] name = "_PCIGIT" -> _PCIGIT
      [] name = "_NSmlAglIT" -> _NSmlAglIT
      [] name = "_HLGIT" -> _HLGIT
      [] name = "_BtnColITT" -> _BtnColITT
      [] name = "_BtnIT" -> _BtnIT
      [] name = "_HLIT" -> _HLIT
      [] name = "_PCIT" -> _PCIT
      [] name = "_DSIGIT" -> _DSIGIT
      [] name = "_VOBA" -> _VOBA
      [] name = "_SmlPBIT" -> _SmlPBIT
      [] name = "_SmlAglDataT" -> _SmlAglDataT
      [] name = "_SmlAglIT" -> _SmlAglIT
      [] name = "_VOBUSrIT" -> _VOBUSrIT
      [] name = "_SyncIT" -> _SyncIT
      [] name = "_DSIT" -> _DSIT


\* Every descriptor a ctypes.Structure.
IsStructure(name) == FALSE

\* ctypes.Union subclasses; every other descriptor is a ctypes.Structure.
IsUnion(name) == name = "_AppInfo"

\* The _pack_ attribute of a descriptor class: none of the classes sets one,
\* which ctypes reads as 0 (native alignment).
Pack(name) == 0

Max(a, b) == IF a >= b THEN a ELSE b
Min(a, b) == IF a <= b THEN a ELSE b

\* The running state of the walk over _fields_ (stgdict.c).
LayoutStart ==
    [size |-> 0, offset |-> 0, align |-> 0, total_align |-> 1,
     field_size |-> 0, bitofs |-> 0, union_size |-> 0]

RECURSIVE SizeOf(_, _)
RECURSIVE AlignOf(_, _)

\* Size and alignment of a field's type.  A struct used by value has been
\* laid out before (its class statement came first): ctypes reads the size
\* and alignment it stored then (`done`).
SizeOf(type, done) ==
    CASE type[1] = "int" -> type[2]
      [] type[1] = "ptr" -> 8
      [] type[1] = "arr" -> type[3] * SizeOf(type[2], done)
      [] type[1] = "struct" -> done[type[2]].size

AlignOf(type, done) ==
    CASE type[1] = "int" -> type[2]
      [] type[1] = "ptr" -> 8
      [] type[1] = "arr" -> AlignOf(type[2], done)
      [] type[1] = "struct" -> done[type[2]].align

\* Placing one field (PyCField_FromDesc, little-endian, GCC bitfield rules):
\* the new running state and the field's descriptor.  A bitfield continues
\* the open storage unit if it still fits, else opens a new one, which is
\* placed like an ordinary field of the declared type.
PlaceField(name, st0, f, done) ==
    LET st == IF IsUnion(name)
              THEN [st0 EXCEPT !.size = 0, !.offset = 0, !.align = 0]
              ELSE st0
        dsize == SizeOf(f.type, done)
        dalign == AlignOf(f.type, done)
        kind ==
            IF f.bits # 0 /\ st.field_size # 0 /\ dsize * 8 <= st.field_size
               /\ st.bitofs + f.bits <= st.field_size
            THEN "CONT_BITFIELD"
            ELSE IF f.bits # 0 /\ st.field_size # 0 /\ dsize * 8 >= st.field_size
                    /\ st.bitofs + f.bits <= dsize * 8
            THEN "EXPAND_BITFIELD"
            ELSE IF f.bits # 0 THEN "NEW_BITFIELD"
            ELSE "NO_BITFIELD"
        align == IF Pack(name) # 0 THEN Min(Pack(name), dalign) ELSE dalign
        delta == IF align # 0 /\ st.offset % align # 0
                 THEN align - (st.offset % align) ELSE 0
        grow == dsize - (st.field_size \div 8)
        nst ==
            CASE kind = "NO_BITFIELD" ->
                   [st EXCEPT !.size = @ + delta + dsize,
                              !.offset = @ + delta + dsize,
                              !.align = align,
                              !.field_size = 0, !.bitofs = 0]
              [] kind = "NEW_BITFIELD" ->
                   [st EXCEPT !.size = @ + delta + dsize,
                              !.offset = @ + delta + dsize,
                              !.align = align,
                              !.field_size = dsize * 8, !.bitofs = f.bits]
              [] kind = "EXPAND_BITFIELD" ->
                   [st EXCEPT !.size = @ + grow,
                              !.offset = @ + grow,
                              !.field_size = dsize * 8, !.bitofs = @ + f.bits]
              [] kind = "CONT_BITFIELD" ->
                   [st EXCEPT !.bitofs = @ + f.bits]
        fld ==
            [name |-> f.name,
             offset |-> IF kind \in {"NO_BITFIELD", "NEW_BITFIELD"}
                        THEN st.offset + delta
                        ELSE nst.offset - dsize,
             size |-> dsize,
             signed |-> (f.type[1] = "int" /\ f.type[3] = "signed"),
             bits |-> f.bits,
             bitofs |-> IF kind \in {"NO_BITFIELD", "NEW_BITFIELD"}
                        THEN 0 ELSE st.bitofs]
    IN [st |-> [nst EXCEPT !.union_size = IF IsUnion(name)
                                          THEN Max(nst.size, @) ELSE @,
                           !.total_align = Max(nst.align, @)],
        fld |-> fld]

\* The size fixed after the last field: rounded up to the alignment.
FinalSize(name, st) ==
    LET raw == IF IsUnion(name) THEN st.union_size ELSE st.size
    IN ((raw + st.total_align - 1) \div st.total_align) * st.total_align

\* The class statement of descriptor ClassOrder[cls] is running: ctypes
\* places the next field of its _fields_ list ...
AddField ==
    /\ cls \in 1..Len(ClassOrder)
    /\ stack = <<"dvdread">>
    /\ pos["dvdread"] = "bind"
    /\ StatementDue("dvdread")
    /\ Executed("dvdread")[nstmts["dvdread"] + 1].name = ClassOrder[cls]
    /\ idx < Len(Fields(ClassOrder[cls]))
    /\ LET r == PlaceField(ClassOrder[cls], lay, Fields(ClassOrder[cls])[idx + 1], stg)
       IN /\ lay' = r.st
          /\ placed' = Append(placed, r.fld)
    /\ idx' = idx + 1
    /\ UNCHANGED <<cls, stg>>
    /\ UNCHANGED <<hvars, bvars>>
    /\ UNCHANGED ivars

\* ... and after the last one stores the size, the alignment and the field
\* descriptors in the class: the class statement is done, and the module
\* body goes on to its next statement.
FinishLayout ==
    /\ cls \in 1..Len(ClassOrder)
    /\ stack = <<"dvdread">>
    /\ pos["dvdread"] = "bind"
    /\ StatementDue("dvdread")
    /\ Executed("dvdread")[nstmts["dvdread"] + 1].name = ClassOrder[cls]
    /\ idx = Len(Fields(ClassOrder[cls]))
    /\ stg' = [stg EXCEPT ![ClassOrder[cls]] =
                 [size |-> FinalSize(ClassOrder[cls], lay),
                  align |-> lay.total_align,
                  fields |-> placed]]
    /\ cls' = cls + 1
    /\ idx' = 0
    /\ lay' = LayoutStart
    /\ placed' = <<>>
    /\ LET st == Executed("dvdread")[nstmts["dvdread"] + 1] IN
         /\ cstate' = After(cstate, st, tick)
         /\ tick' = tick + Ticks(st)
    /\ nstmts' = [nstmts EXCEPT !["dvdread"] = @ + 1]
    /\ UNCHANGED <<osname, entry, stack, pos, ready, loaded, nlookups, err, constructed>>
    /\ UNCHANGED hvars
    /\ UNCHANGED ivars

\* A class whose _fields_ has not been assigned yet.
NotLaidOut == [size |-> 0, align |-> 1, fields |-> <<>>]

LInit ==
    /\ cls = 1
    /\ idx = 0
    /\ lay = LayoutStart
    /\ placed = <<>>
    /\ stg = [n \in StructNames |-> NotLaidOut]

\* The symbol lookups of dvdread.py that come before its first descriptor
\* class of the ifo_types.h group.
NSymbolsBeforeIfoTypes == 22

\* The _fields_ assignments that end the body of dvdread.py, after its last
\* descriptor class and the lookups that follow it.
TrailingPatch ==
    /\ cls = Len(ClassOrder) + 1
    /\ ClassStatement

\* No assignment made.
NoWrite == [i |-> 0, v |-> 0, before |-> <<>>]
NoVariantWrite == [variant |-> "none", i |-> 0, v |-> 0, tag |-> 0]

\* Bound on the field assignments followed on one instance.
MaxWrites == 2

\* The descriptor classes that declare bitfields.
BitfieldClasses ==
    {n \in StructNames : \E i \in 1..Len(stg[n].fields) : stg[n].fields[i].bits # 0}

\* The first bit of a field in the instance's memory (little-endian: the
\* storage unit at `offset`, shifted by the field's low bit).
LowBit(fld) == 8 * fld.offset + fld.bitofs

RECURSIVE BitsValue(_, _, _)
\* The unsigned number held by the w bits of memory from bit lo upwards.
BitsValue(mem, lo, w) ==
    IF w = 0 THEN 0 ELSE mem[lo] + 2 * BitsValue(mem, lo + 1, w - 1)

\* Reading a field (the getter of the field's type): a bitfield is shifted
\* out of its storage unit and sign-extended if the type is signed; any
\* other field is the memory it covers.
GetField(mem, fld) ==
    IF fld.bits # 0
    THEN LET u == BitsValue(mem, LowBit(fld), fld.bits)
         IN IF fld.signed /\ u >= 2 ^ (fld.bits - 1) THEN u - 2 ^ fld.bits ELSE u
    ELSE [k \in 0..(8 * fld.size - 1) |-> mem[8 * fld.offset + k]]

\* Assigning v to a bitfield (the setter of the field's type): the field's
\* bits of the storage unit are cleared and the low `bits` bits of v are
\* shifted in.
SetBitfield(mem, fld, v) ==
    [b \in DOMAIN mem |->
        IF b >= LowBit(fld) /\ b < LowBit(fld) + fld.bits
        THEN (v \div (2 ^ (b - LowBit(fld)))) % 2
        ELSE mem[b]]

\* The values assigned to a bitfield of width w.
Values(w) == {0, 2 ^ w - 1, 341 % (2 ^ w)}

\* The host makes an instance of a descriptor class once dvdread is
\* imported: zero-filled (cls()), or over memory that is already filled
\* (from_buffer_copy, or a record the native library handed out).
NewInstance ==
    /\ "dvdread" \in ready
    /\ inst = "none"
    /\ \E c \in BitfieldClasses, fill \in {0, 1} :
         /\ inst' = c
         /\ buf' = [b \in 0..(8 * stg[c].size - 1) |-> fill]
    /\ UNCHANGED <<nwrites, wrote, vwrote, cvars>>
    /\ UNCHANGED <<hvars, bvars, lvars>>

\* instance.field = v for a bitfield of the instance's class.
SetField ==
    /\ inst # "none"
    /\ nwrites < MaxWrites
    /\ LET fs == stg[inst].fields IN
       \E i \in 1..Len(fs) :
         /\ fs[i].bits # 0
         /\ \E v \in Values(fs[i].bits) :
              /\ buf' = SetBitfield(buf, fs[i], v)
              /\ wrote' = [i |-> i, v |-> v,
                           before |-> [j \in 1..Len(fs) |-> GetField(buf, fs[j])]]
    /\ vwrote' = NoVariantWrite
    /\ nwrites' = nwrites + 1
    /\ UNCHANGED <<inst, cvars>>
    /\ UNCHANGED <<hvars, bvars, lvars>>

\* The field of a field list with the given name.
FieldNamed(fs, n) == fs[CHOOSE i \in 1..Len(fs) : fs[i].name = n]

\* A field of a nested record, as a field of the record holding it at `base`.
Within(fld, base) == [fld EXCEPT !.offset = @ + base]

\* The variants of the union the audio attributes hold in app_info, each as
\* a field of _AudioAttrT.
Variants ==
    LET app == FieldNamed(stg["_AudioAttrT"].fields, "app_info")
        vs == stg["_AppInfo"].fields
    IN [k \in 1..Len(vs) |-> Within(vs[k], app.offset)]

\* The descriptor class of a variant.
VariantClass(k) == Fields("_AppInfo")[k].type[2]

\* instance.app_info.<variant>.<field> = v on an _AudioAttrT: the variant is
\* picked by name alone; application_mode is not looked at.
SetVariantField ==
    /\ inst = "_AudioAttrT"
    /\ nwrites < MaxWrites
    /\ \E k \in 1..Len(Variants) :
         LET fs == stg[VariantClass(k)].fields IN
         \E i \in 1..Len(fs) :
           /\ fs[i].bits # 0
           /\ \E v \in Values(fs[i].bits) :
                /\ buf' = SetBitfield(buf, Within(fs[i], Variants[k].offset), v)
                /\ vwrote' = [variant |-> Variants[k].name, i |-> i, v |-> v,
                              tag |-> GetField(buf, FieldNamed(stg[inst].fields,
                                                               "application_mode"))]
    /\ wrote' = NoWrite
    /\ nwrites' = nwrites + 1
    /\ UNCHANGED <<inst, cvars>>
    /\ UNCHANGED <<hvars, bvars, lvars>>

\* The body of dvdread.py from its first descriptor class on, and what the
\* host does with instances once the module is imported.  No statement of
\* the body compares a computed size with a published constant, so the body
\* ends normally unless a lookup fails.
NextLayout ==
    \/ AddField \/ FinishLayout
    \/ LookupSymbol \/ TrailingPatch \/ FinishModule
    \/ NewInstance \/ SetField \/ SetVariantField

\* The body of dvdread.py is running on posix and has reached the first
\* descriptor class: dvdcss is imported, both libraries are loaded, and the
\* class statements before it have run.
BBody ==
    /\ osname = "posix"
    /\ entry = "dvdread"
    /\ stack = <<"dvdread">>
    /\ pos = [m \in Modules |->
                CASE m = "dvdcss" -> "done"
                  [] m = "dvdread" -> "bind"
                  [] m = "dvdnav" -> "unstarted"]
    /\ ready = {"dvdcss"}
    /\ loaded = <<"libdvdcss.so.2", "libdvdread.so.8">>
    /\ nlookups = [m \in Modules |->
                     CASE m = "dvdcss" -> NSymbolsDvdcss
                       [] m = "dvdread" -> NSymbolsBeforeIfoTypes
                       [] m = "dvdnav" -> 0]
    /\ err = "none"
    /\ LET before == [m \in Modules |->
                        CASE m = "dvdcss" -> Len(ExecutedOn(m, "posix"))
                          [] m = "dvdread" ->
                               (CHOOSE k \in 1..Len(Body_dvdread) :
                                    Body_dvdread[k].name = ClassOrder[1]) - 1
                          [] m = "dvdnav" -> 0]
           ran == RanTo(before["dvdcss"] + before["dvdread"])
       IN /\ nstmts = before
          /\ cstate = ran.cs
          /\ tick = ran.tick
    /\ constructed = {}

\* The initialisation state while the entry points are in use: every module
\* imported on posix.
BIdle ==
    /\ osname = "posix"
    /\ entry = "dvdnav"
    /\ stack = <<>>
    /\ pos = [m \in Modules |-> "done"]
    /\ ready = Modules
    /\ loaded = <<"libdvdcss.so.2", "libdvdread.so.8", "libdvdnav.so.4">>
    /\ nlookups = [m \in Modules |-> NSymbols(m)]
    /\ err = "none"
    /\ nstmts = [m \in Modules |-> Len(ExecutedOn(m, "posix"))]
    /\ cstate = RanTo(Len(PosixStatements)).cs
    /\ tick = RanTo(Len(PosixStatements)).tick
    /\ constructed = {}

\* No descriptor under construction.
LIdle ==
    /\ cls = 0
    /\ idx = 0
    /\ lay = LayoutStart
    /\ placed = <<>>
    /\ stg = [n \in StructNames |-> NotLaidOut]

(***************************************************************************)
(* Part 3d.  Field names and handles.                                      *)
(*                                                                         *)
(* ctypes lays a class out when its _fields_ is assigned: it makes one     *)
(* descriptor per entry of the list and stores it in the class under the   *)
(* entry's name, so a name that occurs twice keeps the descriptor of its   *)
(* last entry only.  The list object is not looked at again: an entry      *)
(* appended to it afterwards gets no storage and no descriptor.  A handle  *)
(* is a POINTER(...) to such a class; handle.contents is an instance over  *)
(* the native memory, with the descriptors of the class as attributes.     *)
(***************************************************************************)

\* The names of the _fields_ entries of the classes that are not among the
\* ifo / nav descriptors above, in the order of the list assigned.
OtherFieldNames ==
    [ _IOVec |->
        <<"iov_base", "iov_len">>,
     _DVDTitle |->
        <<"i_startlb", "p_key", "p_next">>,
     _CSS |->
        <<"i_agid", "p_bus_key", "p_disc_key", "p_title_key">>,
     _DVDCSSS |->
        <<"psz_device", "i_fd", "i_pos", "pf_seek", "pf_read",
          "pf_readv", "i_method", "css", "b_ioctls", "b_scrambled",
          "p_titles", "psz_cachefile", "psz_block", "psz_error",
          "b_errors", "b_debug">>,
     _DVDCSSStreamCB |->
        <<"pf_seek", "pf_read", "pf_readv">>,
     _DVDInputS |->
        <<"dvdcss", "priv", "logcb", "ipos", "fd", "stream_cb">>,
     _DVDReaderDeviceS |->
        <<"isImageFile", "css_state", "css_title", "dev", "path_root",
          "udfcache_level", "udfcache">>,
     _DVDFileS |->
        <<"ctx", "css_title", "lb_start", "seek_pos", "title_sizes",
          "title_devs", "filesize", "cache">>,
     _DVDReaderS |->
        <<"rd", "priv", "logcb", "ifoBUPflags">>,
     _GetBitsStateT |->
        <<"start", "byte_position", "bit_position">>,
     _DVDReaderStreamCB |->
        <<"pf_seek", "pf_read", "pf_readv">>,
     _DVDLoggerCB |->
        <<"pf_log">>,
     _DVDStatT |->
        <<"size", "nr_parts", "parts_size">>,
     _ReadCacheChunkS |->
        <<"cache_buffer", "cache_buffer_base", "cache_start_sector",
          "cache_read_count", "cache_block_count",
          "cache_malloc_size", "cache_valid", "usage_count">>,
     _ReadCacheS |->
        <<"chunk", "current", "freeing", "read_ahead_size",
          "read_ahead_incr", "last_sector", "lock">>,
     _RegistersT |->
        <<"SPRM", "GPRM", "GPRM_mode", "GPRM_time">>,
     _DVDNavHighlightAreaT |->
        <<"palette", "sx", "sy", "ex", "ey", "pts", "buttonN">>,
     _DVDTimecodeT |->
        <<"Hours", "Minutes", "Seconds", "Frames">>,
     _DVDAudioAttributesT |->
        <<"AppMode", "AudioFormat", "Language", "LanguageExtension",
          "HasMultichannelInfo", "SampleFrequency",
          "SampleQuantization", "NumberOfChannels">>,
     _DVDVideoAttributesT |->
        <<"PanscanPermitted", "LetterboxPermitted", "AspectX",
          "AspectY", "FrameRate", "FrameHeight", "Compression",
          "Line21Field1InGop", "Line21Field2InGop", "more_to_come">>,
     _DVDStateT |->
        <<"registers", "domain", "vtsN", "pgc", "pgcN", "pgN",
          "cellN", "cell_restart", "blockN", "rsm_vtsN", "rsm_blockN",
          "rsm_regs", "rsm_pgcN", "rsm_cellN">>,
     _VMPositionS |->
        <<"button", "vts", "domain", "spu_channel", "angle_channel",
          "audio_channel", "hop_channel", "title", "chapter", "cell",
          "cell_restart", "cell_start", "still", "block">>,
     _VMT |->
        <<"priv", "logcb", "streamcb", "videolanlibdvd",
          "dvdstreamcb", "vmgi", "vtsi", "state", "hop_channel",
          "dvd_name", "dvd_serial", "stopped">>,
     _DVDNavVOBUS |->
        <<"vobu_start", "vobu_length", "blockN", "vobu_next">>,
     _DVDNavS |->
        <<"path", "file", "position_next", "position_current", "vobu",
          "pci", "dsi", "last_cmd_nav_lbn", "skip_still", "sync_wait",
          "sync_wait_skip", "spu_clut_changed", "spu_clut_changed",
          "started", "use_read_ahead", "pgc_based", "cur_cell_time",
          "vm", "vm_lock", "priv", "logcb", "cache", "err_str">>,
     _DVDNavLoggerCB |->
        <<"pf_log">>,
     _DVDNavStillEventT |->
        <<"length">>,
     _DVDNavSPUStreamChangeEventT |->
        <<"physical_wide", "physical_letterbox", "physical_pan_scan",
          "logical">>,
     _DVDNavAudioStreamChangeEventT |->
        <<"physical", "logical">>,
     _DVDNavVTSChangeEventT |->
        <<"old_vtsN", "old_domain", "new_vtsN", "new_domain">>,
     _DVDNavCellChangeEventT |->
        <<"cellN", "pgN", "cell_length", "pg_length", "pgc_length",
          "cell_start", "pg_start">>,
     _DVDNavHighlightEventT |->
        <<"display", "palette", "sx", "sy", "ex", "ey", "pts",
          "buttonN">>]

\* The names of the entries of the list assigned to _fields_ of a class.
FieldList(c) ==
    IF c \in StructNames
    THEN [i \in 1..Len(Fields(c)) |-> Fields(c)[i].name]
    ELSE OtherFieldNames[c]

\* The entries appended to the list after it was assigned, in source order;
\* nt: under `if os.name == 'nt':`.
Appends(c) ==
    IF c = "_DVDCSSS"
    THEN <<[name |-> "b_file", nt |-> TRUE],
           [name |-> "p_readv_buffer", nt |-> TRUE],
           [name |-> "i_readv_buf_size", nt |-> TRUE],
           [name |-> "p_stream", nt |-> FALSE],
           [name |-> "p_stream_cb", nt |-> FALSE]>>
    ELSE <<>>

RECURSIVE AppendedNames(_, _)
\* The names of the appends a platform executes.
AppendedNames(as, pf) ==
    IF as = <<>> THEN <<>>
    ELSE (IF as[1].nt /\ pf # "nt" THEN <<>> ELSE <<as[1].name>>)
             \o AppendedNames(Tail(as), pf)

\* The list object X._fields_ as the statements executed so far left it.
ListObject(c) ==
    IF cstate[c].assigned = 0 THEN <<>>
    ELSE FieldList(c)
           \o SubSeq(AppendedNames(Appends(c), Platform(osname)), 1, cstate[c].appended)

\* A ctypes that lays the class out anew whenever the list changes.
EffectiveLayoutFollowsList(c) == ListObject(c)

\* The entries that have storage in the class: those of the list as it was
\* when it was assigned.
EffectiveLayout(c) ==
    IF cstate[c].assigned = 0 THEN <<>> ELSE FieldList(c)

\* The names through which a field of the class can be reached.
Addressable(c) == {EffectiveLayout(c)[i] : i \in 1..Len(EffectiveLayout(c))}

\* The class behind each handle type: _DVDCSST = POINTER(_DVDCSSS),
\* POINTER(_DVDReaderT), POINTER(_DVDFileT), POINTER(_DVDNavT).
HandleClass(h) ==
    CASE h = "css" -> "_DVDCSSS"
      [] h \in {"rd", "navrd"} -> "_DVDReaderS"
      [] h = "file" -> "_DVDFileS"
      [] h \in {"nav", "navdup"} -> "_DVDNavS"

\* The handles an entry point hands the host a pointer to: dvdcss_open,
\* DVDOpen and DVDOpenFile return one, dvdnav_open and dvdnav_dup store one
\* through their first argument.  The reader a navigation context holds is
\* not handed out.
HostHandles == {"css", "rd", "file", "nav", "navdup"}

\* handle.contents.<field>, read or assigned by the host; the reader inside
\* a navigation context is reached as nav.contents.vm.contents.videolanlibdvd.
\* ctypes refuses a NULL pointer (ValueError) and a name that is no field
\* (AttributeError); it knows nothing of the handle's lifecycle, and what
\* another thread does inside the native library goes on meanwhile.
DereferenceHandle(t, h) ==
    /\ ptr[h] = "addr"
    /\ Addressable(HandleClass(h)) # {}
    /\ Forward(t, "contents", "field", h)
    /\ UNCHANGED <<inuse, hstate, ptr, closes, reg>>

(***************************************************************************)
(* Part 3b.  Callback slots.                                               *)
(*                                                                         *)
(* A callback slot of a descriptor is a field of a CFUNCTYPE prototype.    *)
(* The host fills it with prototype(python_function): ctypes builds a      *)
(* trampoline that converts the native arguments to Python values, calls   *)
(* the function and converts what it returns to the result type.  ctypes   *)
(* builds a trampoline only for a result type that has a setter: the       *)
(* simple types (c_int, c_void_p, ...) do, POINTER(...) types do not.      *)
(***************************************************************************)

\* A prototype CFUNCTYPE(restype, *argtypes).
Proto(res, args) == [res |-> res, args |-> args]

\* The prototypes of the callback slots, by descriptor class and field.
Signature ==
    [_DVDCSSStreamCB |->
        [pf_seek |-> Proto(POINTER(c_int), <<c_void_p, c_uint64>>),
         pf_read |-> Proto(POINTER(c_int), <<c_void_p, c_void_p, c_int>>),
         pf_readv |-> Proto(POINTER(c_int), <<c_void_p, c_void_p, c_int>>)],
     _DVDReaderStreamCB |->
        [pf_seek |-> Proto(POINTER(c_int), <<c_void_p, c_int64>>),
         pf_read |-> Proto(POINTER(c_int), <<c_void_p, c_void_p, c_int>>),
         pf_readv |-> Proto(POINTER(c_int), <<c_void_p, c_void_p, c_int>>)],
     _DVDLoggerCB |->
        [pf_log |-> Proto(c_void_p, <<c_void_p, c_int, POINTER(c_char)>>)],
     _DVDNavLoggerCB |->
        [pf_log |-> Proto(c_void_p, <<c_void_p, c_int, POINTER(c_char)>>)]]

StreamDescriptors == {"_DVDCSSStreamCB", "_DVDReaderStreamCB"}
LoggerDescriptors == {"_DVDLoggerCB", "_DVDNavLoggerCB"}
Slots == {<<d, f>> : d \in DOMAIN Signature, f \in {"pf_seek", "pf_read", "pf_readv", "pf_log"}}
             \cap UNION {{<<d, f>> : f \in DOMAIN Signature[d]} : d \in DOMAIN Signature}

\* The integer argument native code passes (offset, byte count, level): the
\* last argument of an integer type.
IntArg(sl) ==
    LET a == Signature[sl[1]][sl[2]].args
    IN a[CHOOSE i \in 1..Len(a) :
           /\ a[i][1] = "int" /\ a[i][3] \in {"signed", "unsigned"}
           /\ \A j \in (i + 1)..Len(a) :
                ~(a[j][1] = "int" /\ a[j][3] \in {"signed", "unsigned"})]

\* Byte i of the two's complement form of v (v within 32 bits).
ByteOf(v, i) ==
    IF i < 4 THEN (v \div (256 ^ i)) % 256
    ELSE IF v < 0 THEN 255 ELSE 0

TwosComplement(v) == [i \in 0..7 |-> ByteOf(v, i)]

\* An integer of any width: whether it is below zero, and the eight low
\* bytes of its two's complement form, byte 0 the lowest (2^64 - 1 is
\* [negative |-> FALSE, form |-> all 255], -1 is [negative |-> TRUE, form |->
\* all 255]).
PyInt(v) == [negative |-> v < 0, form |-> TwosComplement(v)]

\* The integer an instance of an integer type holds after it was given v:
\* ctypes keeps the low bytes of v that the type has, and reads them back
\* with the sign of the type (c_uint(-1).value is 2^32 - 1, c_void_p(-1).value
\* and c_uint64(-1).value are 2^64 - 1, c_int(-1).value is -1).
AsCType(type, v) ==
    LET b == TwosComplement(v)
        neg == type[3] = "signed" /\ b[type[2] - 1] >= 128
    IN [negative |-> neg,
        form |-> [i \in 0..7 |->
                    IF i < type[2] THEN b[i] ELSE IF neg THEN 255 ELSE 0]]

\* The values native code passes and a Python callback returns.
CallbackInts == {-1, 0, 1, 2048, 2147483647}

NoCall == [slot |-> <<>>, requested |-> 0, got |-> PyInt(0), none |-> FALSE,
           ret |-> 0, reported |-> PyInt(0)]

\* The host wraps a Python function in the prototype of a slot.
MakeTrampoline ==
    /\ \E sl \in Slots :
         /\ tramps[sl] = "none"
         /\ tramps' = [tramps EXCEPT ![sl] =
                         IF Signature[sl[1]][sl[2]].res[1] = "int"
                         THEN "built" ELSE "TypeError"]
    /\ UNCHANGED <<call, result, acall>>
    /\ UNCHANGED wvars
    /\ UNCHANGED <<hvars, bvars, lvars>>

\* Native code calls a trampoline: the integer argument reaches the Python
\* function converted from its declared type, and the value the function
\* returns goes back converted to the result type (None as NULL).
InvokeCallback ==
    /\ \E sl \in Slots :
         /\ tramps[sl] = "built"
         /\ \E n \in CallbackInts, r \in CallbackInts, none \in BOOLEAN :
              /\ none => r = 0
              /\ call' = [slot |-> sl,
                          requested |-> n,
                          got |-> AsCType(IntArg(sl), n),
                          none |-> none,
                          ret |-> r,
                          reported |-> IF none THEN PyInt(0)
                                       ELSE AsCType(Signature[sl[1]][sl[2]].res, r)]
    /\ UNCHANGED <<tramps, result, acall>>
    /\ UNCHANGED wvars
    /\ UNCHANGED <<hvars, bvars, lvars>>

NextCallback == MakeTrampoline \/ InvokeCallback

(***************************************************************************)
(* Part 3c.  Foreign calls.                                                *)
(*                                                                         *)
(* The host calls a bound entry point.  The native function leaves its     *)
(* return value in the return register, in the width of its C return type; *)
(* the bytes of the register above that width are not defined.  ctypes     *)
(* reads as many bytes as the declared restype has and makes a Python int  *)
(* of them, extending the sign of a signed restype.  No entry point has an *)
(* errcheck, so the Python int is what the call returns to the host.       *)
(* Integers are compared as their 8 bytes in two's complement, least       *)
(* significant byte first.                                                 *)
(***************************************************************************)

c_int8 == <<"int", 1, "signed">>
c_int32 == <<"int", 4, "signed">>
c_ssize_t == <<"int", 8, "signed">>
_DVDNavStatusT == c_int32

\* The read, seek and query entry points and their declared restype.
RestypeTable ==
    [dvd_read_blocks |-> c_ssize_t,
     dvd_file_seek |-> c_int32,
     dvd_read_bytes |-> c_ssize_t,
     dvd_file_size |-> c_ssize_t,
     dvdcss_seek |-> c_int,
     dvdcss_read |-> c_int,
     dvdcss_readv |-> c_int,
     dvdnav_get_next_block |-> _DVDNavStatusT,
     dvdnav_get_audio_logical_stream |-> c_int8,
     dvdnav_get_spu_logical_stream |-> c_int8]

EntryPoints == DOMAIN RestypeTable

\* What ctypes takes for an entry point whose restype is not declared.
RestypeDefault(ep) == c_int

Restype(ep) == RestypeTable[ep]

\* The C return type of the native function an entry point is bound to, by
\* the header declaration its docstring refers to: ssize_t, int32_t, int,
\* dvdnav_status_t (int32_t), int8_t.
NativeType(ep) ==
    CASE ep \in {"dvd_read_blocks", "dvd_read_bytes", "dvd_file_size"} -> <<"int", 8, "signed">>
      [] ep \in {"dvdnav_get_audio_logical_stream", "dvdnav_get_spu_logical_stream"} -> <<"int", 1, "signed">>
      [] OTHER -> <<"int", 4, "signed">>

\* Values a native function returns: error sentinels, zero, counts, the ends
\* of the range.
NativeValues(type) ==
    IF type[2] = 1 THEN {-128, -1, 0, 1, 127}
    ELSE {-2147483647 - 1, -1, 0, 1, 2048, 2147483647}

\* The return register after a function of the given return type returned v.
ReturnRegister(type, v, pad) ==
    [i \in 0..7 |-> IF i < type[2] THEN ByteOf(v, i) ELSE pad]

\* The Python int ctypes makes of the register for a restype.
ResultValue(type, register) ==
    [i \in 0..7 |->
        IF i < type[2] THEN register[i]
        ELSE IF type[3] = "signed" /\ register[type[2] - 1] >= 128 THEN 255 ELSE 0]

Errcheck(ep) == "none"

NoResult == [ep |-> "none", native |-> 0, register |-> TwosComplement(0),
             host |-> TwosComplement(0), raised |-> FALSE]

\* A foreign call returns.
CallEntryPoint ==
    /\ \E ep \in EntryPoints :
         \E v \in NativeValues(NativeType(ep)), pad \in {0, 255} :
            LET register == ReturnRegister(NativeType(ep), v, pad) IN
            result' = [ep |-> ep,
                       native |-> v,
                       register |-> register,
                       host |-> ResultValue(Restype(ep), register),
                       raised |-> Errcheck(ep) # "none"]
    /\ UNCHANGED <<tramps, call, acall>>
    /\ UNCHANGED wvars
    /\ UNCHANGED <<hvars, bvars, lvars>>

(***************************************************************************)
(* Part 3e.  Arguments of foreign calls.                                   *)
(*                                                                         *)
(* Before the native function runs ctypes converts the arguments.  With    *)
(* argtypes declared it raises TypeError for fewer arguments than types    *)
(* and asks each type to accept its argument (from_param), raising         *)
(* ArgumentError if it does not; arguments beyond the declared ones are    *)
(* allowed for a CDLL function and converted by the default rules, as all  *)
(* arguments are when argtypes is not declared: None, integers, bytes,     *)
(* strings and ctypes instances pass, anything else is an ArgumentError.   *)
(***************************************************************************)

Declared(types) == [declared |-> TRUE, types |-> types]
NotDeclared == [declared |-> FALSE, types |-> <<>>]

\* <entry point>.argtypes of every bound entry point.
Argtypes ==
    [dvdcss_open |-> Declared(<<POINTER(c_char)>>),
     dvdcss_open_stream |-> Declared(<<c_void_p,
         POINTER(Struct("_DVDCSSStreamCB"))>>),
     dvdcss_close |-> Declared(<<POINTER(Struct("_DVDCSSS"))>>),
     dvdcss_seek |-> Declared(<<POINTER(Struct("_DVDCSSS")), c_int, c_int>>),
     dvdcss_read |-> Declared(<<POINTER(Struct("_DVDCSSS")), c_void_p,
         c_int, c_int>>),
     dvdcss_readv |-> Declared(<<POINTER(Struct("_DVDCSSS")), c_void_p,
         c_int, c_int>>),
     dvdcss_error |-> Declared(<<POINTER(Struct("_DVDCSSS"))>>),
     dvdcss_is_scrambled |-> Declared(<<POINTER(Struct("_DVDCSSS"))>>),
     dvdread_getbits_init |-> Declared(<<POINTER(Struct("_GetBitsStateT")),
         POINTER(c_ubyte)>>),
     dvdread_getbits |-> Declared(<<POINTER(Struct("_GetBitsStateT")),
         c_uint>>),
     dvd_open |-> Declared(<<POINTER(c_char)>>),
     dvd_open_stream |-> Declared(<<POINTER(c_char),
         POINTER(Struct("_DVDReaderStreamCB"))>>),
     dvd_open2 |-> Declared(<<c_void_p, POINTER(Struct("_DVDLoggerCB")),
         POINTER(c_char)>>),
     dvd_open_stream2 |-> Declared(<<c_void_p,
         POINTER(Struct("_DVDLoggerCB")),
         POINTER(Struct("_DVDReaderStreamCB"))>>),
     dvd_close |-> Declared(<<POINTER(Struct("_DVDReaderS"))>>),
     dvd_file_stat |-> Declared(<<POINTER(Struct("_DVDReaderS")), c_int,
         c_int, POINTER(Struct("_DVDStatT"))>>),
     dvd_open_file |-> Declared(<<POINTER(Struct("_DVDReaderS")), c_int,
         c_int>>),
     dvd_close_file |-> Declared(<<POINTER(Struct("_DVDFileS"))>>),
     dvd_read_blocks |-> Declared(<<POINTER(Struct("_DVDFileS")), c_int,
         c_uint64, POINTER(c_char)>>),
     dvd_file_seek |-> Declared(<<POINTER(Struct("_DVDFileS")), c_int>>),
     dvd_read_bytes |-> Declared(<<POINTER(Struct("_DVDFileS")), c_void_p,
         c_uint64>>),
     dvd_file_size |-> Declared(<<POINTER(Struct("_DVDFileS"))>>),
     dvd_disc_id |-> Declared(<<POINTER(Struct("_DVDReaderS")),
         POINTER(c_ubyte)>>),
     dvd_volume_info |-> Declared(<<POINTER(Struct("_DVDReaderS")),
         POINTER(c_char), c_uint, POINTER(c_ubyte), c_uint>>),
     dvd_file_seek_force |-> Declared(<<POINTER(Struct("_DVDFileS")), c_int,
         c_int>>),
     dvd_iso_volume_info |-> Declared(<<POINTER(Struct("_DVDReaderS")),
         POINTER(c_char), c_uint, POINTER(c_ubyte), c_uint>>),
     dvd_udf_cache_level |-> Declared(<<POINTER(Struct("_DVDReaderS")),
         c_int>>),
     udf_find_file |-> Declared(<<POINTER(Struct("_DVDReaderS")),
         POINTER(c_char), POINTER(c_uint)>>),
     udf_get_volume_identifier |->
         Declared(<<POINTER(Struct("_DVDReaderS")), POINTER(c_char),
         c_uint>>),
     udf_get_volume_set_identifier |->
         Declared(<<POINTER(Struct("_DVDReaderS")), POINTER(c_ubyte),
         c_uint>>),
     ifo_print |-> Declared(<<POINTER(Struct("_DVDReaderS")), c_int>>),
     dvdread_print_time |-> Declared(<<POINTER(Struct("_DVDTimeT"))>>),
     ifo_open |-> Declared(<<POINTER(Struct("_DVDReaderS")), c_int>>),
     ifo_open_vmgi |-> Declared(<<POINTER(Struct("_DVDReaderS"))>>),
     ifo_open_vtsi |-> Declared(<<POINTER(Struct("_DVDReaderS")), c_int>>),
     ifo_close |-> Declared(<<POINTER(Struct("_IFOHandleT"))>>),
     ifo_read_ptl_mait |-> Declared(<<POINTER(Struct("_IFOHandleT"))>>),
     ifo_read_vts_atrt |-> Declared(<<POINTER(Struct("_IFOHandleT"))>>),
     ifo_read_tt_srpt |-> Declared(<<POINTER(Struct("_IFOHandleT"))>>),
     ifo_read_vts_ptt_srpt |-> Declared(<<POINTER(Struct("_IFOHandleT"))>>),
     ifo_read_fp_pgc |-> Declared(<<POINTER(Struct("_IFOHandleT"))>>),
     ifo_read_pgcit |-> Declared(<<POINTER(Struct("_IFOHandleT"))>>),
     ifo_read_pgci_ut |-> Declared(<<POINTER(Struct("_IFOHandleT"))>>),
     ifo_read_vts_tmapt |-> Declared(<<POINTER(Struct("_IFOHandleT"))>>),
     ifo_read_c_adt |-> Declared(<<POINTER(Struct("_IFOHandleT"))>>),
     ifo_read_title_c_adt |-> Declared(<<POINTER(Struct("_IFOHandleT"))>>),
     ifo_read_vobu_admap |-> Declared(<<POINTER(Struct("_IFOHandleT"))>>),
     ifo_read_title_vobu_admap |->
         Declared(<<POINTER(Struct("_IFOHandleT"))>>),
     ifo_read_txtdt_mgi |-> Declared(<<POINTER(Struct("_IFOHandleT"))>>),
     ifo_free_ptl_mait |-> Declared(<<POINTER(Struct("_IFOHandleT"))>>),
     ifo_free_vts_atrt |-> Declared(<<POINTER(Struct("_IFOHandleT"))>>),
     ifo_free_tt_srpt |-> Declared(<<POINTER(Struct("_IFOHandleT"))>>),
     ifo_free_vts_ptt_srpt |-> Declared(<<POINTER(Struct("_IFOHandleT"))>>),
     ifo_free_fp_pgc |-> Declared(<<POINTER(Struct("_IFOHandleT"))>>),
     ifo_free_pgcit |-> Declared(<<POINTER(Struct("_IFOHandleT"))>>),
     ifo_free_pgci_ut |-> Declared(<<POINTER(Struct("_IFOHandleT"))>>),
     ifo_free_vts_tmapt |-> Declared(<<POINTER(Struct("_IFOHandleT"))>>),
     ifo_free_c_adt |-> Declared(<<POINTER(Struct("_IFOHandleT"))>>),
     ifo_free_title_c_adt |-> Declared(<<POINTER(Struct("_IFOHandleT"))>>),
     ifo_free_vobu_admap |-> Declared(<<POINTER(Struct("_IFOHandleT"))>>),
     ifo_free_title_vobu_admap |->
         Declared(<<POINTER(Struct("_IFOHandleT"))>>),
     ifo_free_txtdt_mgi |-> Declared(<<POINTER(Struct("_IFOHandleT"))>>),
     nav_print_pci |-> Declared(<<POINTER(Struct("_PCIT"))>>),
     nav_print_dsi |-> Declared(<<POINTER(Struct("_DSIT"))>>),
     nav_read_pci |-> Declared(<<POINTER(Struct("_PCIT")),
         POINTER(c_ubyte)>>),
     nav_read_dsi |-> Declared(<<POINTER(Struct("_DSIT")),
         POINTER(c_ubyte)>>),
     dvdnav_open |-> Declared(<<POINTER(POINTER(Struct("_DVDNavS"))),
         POINTER(c_char)>>),
     dvdnav_open_stream |-> Declared(<<POINTER(POINTER(Struct("_DVDNavS"))),
         c_void_p, POINTER(Struct("_DVDReaderStreamCB"))>>),
     dvdnav_open2 |-> Declared(<<POINTER(POINTER(Struct("_DVDNavS"))),
         c_void_p, POINTER(Struct("_DVDNavLoggerCB")), POINTER(c_char)>>),
     dvdnav_open_stream2 |->
         Declared(<<POINTER(POINTER(Struct("_DVDNavS"))), c_void_p,
         POINTER(Struct("_DVDNavLoggerCB")),
         POINTER(Struct("_DVDReaderStreamCB"))>>),
     dvdnav_dup |-> Declared(<<POINTER(POINTER(Struct("_DVDNavS"))),
         POINTER(Struct("_DVDNavS"))>>),
     dvdnav_free_dup |-> Declared(<<POINTER(Struct("_DVDNavS"))>>),
     dvdnav_close |-> Declared(<<POINTER(Struct("_DVDNavS"))>>),
     dvdnav_reset |-> Declared(<<POINTER(Struct("_DVDNavS"))>>),
     dvdnav_path |-> Declared(<<POINTER(Struct("_DVDNavS")),
         POINTER(POINTER(c_char))>>),
     dvdnav_err_to_string |-> Declared(<<POINTER(Struct("_DVDNavS"))>>),
     dvdnav_version |-> NotDeclared,
     dvdnav_set_region_mask |-> Declared(<<POINTER(Struct("_DVDNavS")),
         c_int>>),
     dvdnav_get_region_mask |-> Declared(<<POINTER(Struct("_DVDNavS")),
         POINTER(c_int)>>),
     dvdnav_set_readahead_flag |-> Declared(<<POINTER(Struct("_DVDNavS")),
         c_int>>),
     dvdnav_get_readahead_flag |-> Declared(<<POINTER(Struct("_DVDNavS")),
         POINTER(c_int)>>),
     dvdnav_set_pgc_positioning_flag |->
         Declared(<<POINTER(Struct("_DVDNavS")), c_int>>),
     dvdnav_get_pgc_positioning_flag |->
         Declared(<<POINTER(Struct("_DVDNavS")), POINTER(c_int)>>),
     dvdnav_get_next_block |-> Declared(<<POINTER(Struct("_DVDNavS")),
         POINTER(c_ubyte), POINTER(c_int), POINTER(c_int)>>),
     dvdnav_get_next_cache_block |-> Declared(<<POINTER(Struct("_DVDNavS")),
         POINTER(POINTER(c_ubyte)), POINTER(c_int), POINTER(c_int)>>),
     dvdnav_free_cache_block |-> Declared(<<POINTER(Struct("_DVDNavS")),
         POINTER(c_ubyte)>>),
     dvdnav_still_skip |-> Declared(<<POINTER(Struct("_DVDNavS"))>>),
     dvdnav_wait_skip |-> Declared(<<POINTER(Struct("_DVDNavS"))>>),
     dvdnav_get_next_still_flag |->
         Declared(<<POINTER(Struct("_DVDNavS"))>>),
     dvdnav_stop |-> Declared(<<POINTER(Struct("_DVDNavS"))>>),
     dvdnav_get_number_of_titles |-> Declared(<<POINTER(Struct("_DVDNavS")),
         POINTER(c_int)>>),
     dvdnav_get_number_of_parts |-> Declared(<<POINTER(Struct("_DVDNavS")),
         c_int, POINTER(c_int)>>),
     dvdnav_get_number_of_angles |-> Declared(<<POINTER(Struct("_DVDNavS")),
         c_int, POINTER(c_int)>>),
     dvdnav_title_play |-> Declared(<<POINTER(Struct("_DVDNavS")), c_int>>),
     dvdnav_part_play |-> Declared(<<POINTER(Struct("_DVDNavS")), c_int,
         c_int>>),
     dvdnav_program_play |-> Declared(<<POINTER(Struct("_DVDNavS")), c_int,
         c_int, c_int>>),
     dvdnav_describe_title_chapters |->
         Declared(<<POINTER(Struct("_DVDNavS")), c_int,
         POINTER(POINTER(c_uint64)), POINTER(c_uint64)>>),
     dvdnav_part_play_auto_stop |-> Declared(<<POINTER(Struct("_DVDNavS")),
         c_int, c_int, c_int>>),
     dvdnav_time_play |-> Declared(<<POINTER(Struct("_DVDNavS")), c_int,
         c_int64>>),
     dvdnav_menu_call |-> Declared(<<POINTER(Struct("_DVDNavS")), c_int>>),
     dvdnav_current_title_info |-> Declared(<<POINTER(Struct("_DVDNavS")),
         POINTER(c_int), POINTER(c_int)>>),
     dvdnav_current_title_program |->
         Declared(<<POINTER(Struct("_DVDNavS")), POINTER(c_int),
         POINTER(c_int), POINTER(c_int)>>),
     dvdnav_get_position_in_title |->
         Declared(<<POINTER(Struct("_DVDNavS")), POINTER(c_uint),
         POINTER(c_uint)>>),
     dvdnav_part_search |-> Declared(<<POINTER(Struct("_DVDNavS")), c_int>>),
     dvdnav_sector_search |-> Declared(<<POINTER(Struct("_DVDNavS")),
         c_int64, c_int>>),
     dvdnav_get_current_time |-> Declared(<<POINTER(Struct("_DVDNavS"))>>),
     dvdnav_time_search |-> Declared(<<POINTER(Struct("_DVDNavS")),
         c_uint64>>),
     dvdnav_jump_to_sector_by_time |->
         Declared(<<POINTER(Struct("_DVDNavS")), c_uint64, c_int>>),
     dvdnav_go_up |-> Declared(<<POINTER(Struct("_DVDNavS"))>>),
     dvdnav_prev_pg_search |-> Declared(<<POINTER(Struct("_DVDNavS"))>>),
     dvdnav_top_pg_search |-> Declared(<<POINTER(Struct("_DVDNavS"))>>),
     dvdnav_next_pg_search |-> Declared(<<POINTER(Struct("_DVDNavS"))>>),
     dvdnav_get_position |-> Declared(<<POINTER(Struct("_DVDNavS")),
         POINTER(c_uint), POINTER(c_uint)>>),
     dvdnav_get_current_highlight |->
         Declared(<<POINTER(Struct("_DVDNavS")), POINTER(c_int)>>),
     dvdnav_get_current_nav_pci |->
         Declared(<<POINTER(Struct("_DVDNavS"))>>),
     dvdnav_get_current_nav_dsi |->
         Declared(<<POINTER(Struct("_DVDNavS"))>>),
     dvdnav_get_highlight_area |-> Declared(<<POINTER(Struct("_PCIT")),
         c_int, c_int, POINTER(Struct("_DVDNavHighlightAreaT"))>>),
     dvdnav_upper_button_select |-> Declared(<<POINTER(Struct("_DVDNavS")),
         POINTER(Struct("_PCIT"))>>),
     dvdnav_lower_button_select |-> Declared(<<POINTER(Struct("_DVDNavS")),
         POINTER(Struct("_PCIT"))>>),
     dvdnav_right_button_select |-> Declared(<<POINTER(Struct("_DVDNavS")),
         POINTER(Struct("_PCIT"))>>),
     dvdnav_left_button_select |-> Declared(<<POINTER(Struct("_DVDNavS")),
         POINTER(Struct("_PCIT"))>>),
     dvdnav_button_activate |-> Declared(<<POINTER(Struct("_DVDNavS")),
         POINTER(Struct("_PCIT"))>>),
     dvdnav_button_select |-> Declared(<<POINTER(Struct("_DVDNavS")),
         POINTER(Struct("_PCIT")), c_int>>),
     dvdnav_button_select_and_activate |->
         Declared(<<POINTER(Struct("_DVDNavS")), POINTER(Struct("_PCIT")),
         c_int>>),
     dvdnav_button_activate_cmd |-> Declared(<<POINTER(Struct("_DVDNavS")),
         c_int, POINTER(Struct("_VMCmdT"))>>),
     dvdnav_mouse_select |-> Declared(<<POINTER(Struct("_DVDNavS")),
         POINTER(Struct("_PCIT")), c_int, c_int>>),
     dvdnav_mouse_activate |-> Declared(<<POINTER(Struct("_DVDNavS")),
         POINTER(Struct("_PCIT")), c_int, c_int>>),
     dvdnav_menu_language_select |-> Declared(<<POINTER(Struct("_DVDNavS")),
         POINTER(c_char)>>),
     dvdnav_audio_language_select |->
         Declared(<<POINTER(Struct("_DVDNavS")), POINTER(c_char)>>),
     dvdnav_spu_language_select |-> Declared(<<POINTER(Struct("_DVDNavS")),
         POINTER(c_char)>>),
     dvdnav_get_title_string |-> Declared(<<POINTER(Struct("_DVDNavS")),
         POINTER(POINTER(c_char))>>),
     dvdnav_get_serial_string |-> Declared(<<POINTER(Struct("_DVDNavS")),
         POINTER(POINTER(c_char))>>),
     dvdnav_get_video_aspect |-> Declared(<<POINTER(Struct("_DVDNavS"))>>),
     dvdnav_get_video_resolution |-> Declared(<<POINTER(Struct("_DVDNavS")),
         POINTER(c_uint), POINTER(c_uint)>>),
     dvdnav_get_video_scale_permission |->
         Declared(<<POINTER(Struct("_DVDNavS"))>>),
     dvdnav_audio_stream_to_lang |-> Declared(<<POINTER(Struct("_DVDNavS")),
         c_ubyte>>),
     dvdnav_audio_stream_format |-> Declared(<<POINTER(Struct("_DVDNavS")),
         c_ubyte>>),
     dvdnav_audio_stream_channels |->
         Declared(<<POINTER(Struct("_DVDNavS")), c_ubyte>>),
     dvdnav_spu_stream_to_lang |-> Declared(<<POINTER(Struct("_DVDNavS")),
         c_ubyte>>),
     dvdnav_get_audio_logical_stream |->
         Declared(<<POINTER(Struct("_DVDNavS")), c_ubyte>>),
     dvdnav_get_audio_attr |-> Declared(<<POINTER(Struct("_DVDNavS")),
         c_ubyte, POINTER(Struct("_AudioAttrT"))>>),
     dvdnav_get_spu_logical_stream |->
         Declared(<<POINTER(Struct("_DVDNavS")), c_ubyte>>),
     dvdnav_get_spu_attr |-> Declared(<<POINTER(Struct("_DVDNavS")),
         c_ubyte, POINTER(Struct("_SubPAttrT"))>>),
     dvdnav_get_active_audio_stream |->
         Declared(<<POINTER(Struct("_DVDNavS"))>>),
     dvdnav_get_active_spu_stream |->
         Declared(<<POINTER(Struct("_DVDNavS"))>>),
     dvdnav_get_restrictions |-> Declared(<<POINTER(Struct("_DVDNavS"))>>),
     dvdnav_angle_change |-> Declared(<<POINTER(Struct("_DVDNavS")),
         c_uint>>),
     dvdnav_get_angle_info |-> NotDeclared,
     dvdnav_is_domain_fp |-> Declared(<<POINTER(Struct("_DVDNavS"))>>),
     dvdnav_is_domain_vmgm |-> Declared(<<POINTER(Struct("_DVDNavS"))>>),
     dvdnav_is_domain_vtsm |-> Declared(<<POINTER(Struct("_DVDNavS"))>>),
     dvdnav_is_domain_vts |-> Declared(<<POINTER(Struct("_DVDNavS"))>>)]

\* The parameters of the native function: the declared argtypes, for
\* dvdnav_get_angle_info the tuple its `argstype` attribute is given;
\* dvdnav_version takes none.
NativeParameters(ep) ==
    IF Argtypes[ep].declared THEN Argtypes[ep].types
    ELSE IF ep = "dvdnav_get_angle_info"
         THEN <<POINTER(Struct("_DVDNavS")), POINTER(c_uint), POINTER(c_uint)>>
         ELSE <<>>

\* What the open entry points hand out: their restype, for dvdnav_open the
\* pointer its first argument points to.
Produces(ep) ==
    CASE ep = "dvdcss_open" -> POINTER(Struct("_DVDCSSS"))
      [] ep = "dvd_open" -> POINTER(Struct("_DVDReaderS"))
      [] ep = "dvd_open_file" -> POINTER(Struct("_DVDFileS"))
      [] ep = "dvdnav_open" -> Argtypes[ep].types[1][2]

\* The handle types.
HandleTypes == {POINTER(Struct(HandleClass(h))) : h \in HostHandles}

\* Python values the host passes: None, an int, a bytes object, a float, a
\* handle (an instance of a handle type).
PyValue(kind) == [kind |-> kind, type |-> <<>>]
Instance(type) == [kind |-> "instance", type |-> type]
HostValues ==
    {PyValue("None"), PyValue("int"), PyValue("bytes"), PyValue("float")}
        \cup {Instance(t) : t \in HandleTypes}

\* An argument accepted by every pointer parameter, as c_void_p would.
AcceptsAnyPointer(type, v) ==
    \/ v.kind = "None"
    \/ v.kind = "instance" /\ v.type[1] = "ptr"
    \/ v.kind = "int" /\ type[1] = "int"

\* type.from_param(v) succeeds.
Accepts(type, v) ==
    CASE v.kind = "None" -> type[1] = "ptr" \/ type = c_void_p
      [] v.kind = "int" -> type[1] = "int"
      [] v.kind = "bytes" -> type = POINTER(c_char) \/ type = c_void_p
      [] v.kind = "instance" ->
            \/ v.type = type
            \/ type = c_void_p /\ v.type[1] = "ptr"
            \/ type[1] = "ptr" /\ type[2] = v.type
      [] OTHER -> FALSE

\* The default conversion of an argument without a declared type.
DefaultConvertible(v) == v.kind # "float"

\* How a call entry_point(*args) ends on the host side.
Outcome(ep, args) ==
    LET a == Argtypes[ep]
        n == IF a.declared THEN Len(a.types) ELSE 0
    IN IF Len(args) < n THEN "TypeError"
       ELSE IF \E i \in 1..n : ~Accepts(a.types[i], args[i]) THEN "ArgumentError"
       ELSE IF \E i \in (n + 1)..Len(args) : ~DefaultConvertible(args[i])
            THEN "ArgumentError"
       ELSE "native"

\* An argument for a parameter of the given type.
Matching(type) == IF type[1] = "ptr" THEN Instance(type) ELSE PyValue("int")

\* The argument lists the host tries for an entry point: the one matching
\* the native parameters, and that list with its last argument left out,
\* with one more argument, or with one argument replaced.
ArgumentLists(ep) ==
    LET p == NativeParameters(ep)
        ok == [i \in 1..Len(p) |-> Matching(p[i])]
    IN {ok}
         \cup {SubSeq(ok, 1, Len(ok) - 1) : i \in 1..Len(ok)}
         \cup {Append(ok, v) : v \in HostValues}
         \cup {[ok EXCEPT ![i] = v] : i \in 1..Len(ok), v \in HostValues}

NoArguments == [ep |-> "none", args |-> <<>>, outcome |-> "none"]

\* The host calls an entry point: entry_point(*args).
PassArguments ==
    /\ acall = NoArguments
    /\ \E ep \in DOMAIN Argtypes :
         \E args \in ArgumentLists(ep) :
            acall' = [ep |-> ep, args |-> args, outcome |-> "converting"]
    /\ UNCHANGED <<tramps, call, result>>
    /\ UNCHANGED wvars
    /\ UNCHANGED <<hvars, bvars, lvars>>

\* ctypes converts the arguments of the call: it raises, or the native
\* function is called with them.
ConvertArguments ==
    /\ acall.outcome = "converting"
    /\ acall' = [acall EXCEPT !.outcome = Outcome(acall.ep, acall.args)]
    /\ UNCHANGED <<tramps, call, result>>
    /\ UNCHANGED wvars
    /\ UNCHANGED <<hvars, bvars, lvars>>

\* The call is over: the exception or the result is with the host.
EndCall ==
    /\ acall.outcome \in {"TypeError", "ArgumentError", "native"}
    /\ acall' = NoArguments
    /\ UNCHANGED <<tramps, call, result>>
    /\ UNCHANGED wvars
    /\ UNCHANGED <<hvars, bvars, lvars>>

NextCall == CallEntryPoint

NextArguments == PassArguments \/ ConvertArguments \/ EndCall

\* No trampoline made, no entry point called.
CIdle ==
    /\ tramps = [sl \in Slots |-> "none"]
    /\ call = NoCall
    /\ result = NoResult
    /\ acall = NoArguments

\* What the host and the native library do with the handles.
Next ==
    \/ \E t \in Threads :
         \/ dvdcss_open(t) \/ dvdcss_open_stream(t)
         \/ dvdcss_close(t) \/ dvdcss_read(t)
         \/ dvd_open(t) \/ dvd_open_stream(t)
         \/ dvd_open2(t) \/ dvd_open_stream2(t)
         \/ dvd_close(t) \/ dvd_disc_id(t)
         \/ dvd_open_file(t) \/ dvd_close_file(t) \/ dvd_read_blocks(t)
         \/ dvdnav_open(t) \/ dvdnav_open_stream(t)
         \/ dvdnav_open2(t) \/ dvdnav_open_stream2(t)
         \/ dvdnav_dup(t) \/ dvdnav_free_dup(t)
         \/ dvdnav_close(t) \/ dvdnav_get_next_block(t)
         \/ NativeReturn(t)
    \/ \E r \in Registrations : DropRegistration(r)
    \/ \E t \in Threads, h \in Handles : DereferenceHandle(t, h)

\* No instance of a descriptor class.
IIdle ==
    /\ inst = "none"
    /\ buf = <<>>
    /\ nwrites = 0
    /\ wrote = NoWrite
    /\ vwrote = NoVariantWrite
    /\ CIdle

Init == HInit /\ BIdle /\ LIdle /\ IIdle
Spec == Init /\ [][Next]_vars

\* The handles before any module is imported.
HIdle ==
    /\ inuse = "none"
    /\ hstate = [h \in Handles |-> "Unopened"]
    /\ ptr = [h \in Handles |-> "unset"]
    /\ closes = [h \in Handles |-> 0]
    /\ reg = [r \in Registrations |-> "none"]
    /\ tpc = [t \in Threads |-> Idle]

InitBind == BInit /\ HIdle /\ LIdle /\ IIdle
SpecBind == InitBind /\ [][NextBind]_vars

\* The modules are imported and the host sets up callbacks.
SpecCallback == Init /\ [][NextCallback]_vars

\* The modules are imported and the host calls entry points.
SpecCall == Init /\ [][NextCall]_vars

\* The modules are imported and the host passes arguments to entry points.
SpecArguments == Init /\ [][NextArguments]_vars

InitLayout == LInit /\ HIdle /\ BBody /\ IIdle
SpecLayout == InitLayout /\ [][NextLayout]_vars

(***************************************************************************)
(* Part 4.  The properties.                                                *)
(***************************************************************************)

\* C1: an operation issued on a handle that is Unopened or Closed never
\* reaches the native entry point: every operation call inside the native
\* library was forwarded while its handle was Open.
C1_OperationOnlyOnOpenHandle ==
    \A t \in Threads : tpc[t].kind = "op" => tpc[t].at = "Open"

\* C2: for every handle the native close entry point is reached at most
\* once; a second close is not forwarded.
C2_CloseForwardedAtMostOnce ==
    \A h \in Handles : closes[h] <= 1

\* C3: after a native open has reported failure (NULL), no later operation
\* or close on that handle is forwarded to the native library.
C3_NothingForwardedAfterOpenFailed ==
    \A t \in Threads : tpc[t].kind \in {"op", "close"} => tpc[t].p # "null"

\* C4: the reader context is never Closed while the file context opened
\* from it is still Open.
C4_ReaderOutlivesFile ==
    ~(hstate["rd"] = "Closed" /\ hstate["file"] = "Open")

\* C5: DVDClose is never forwarded on the reader context owned by a
\* navigation context that is still Open.
C5_OwnedReaderNotClosedByHost ==
    \A t \in Threads :
        (tpc[t].fn = "DVDClose" /\ tpc[t].h = "navrd") => hstate["nav"] # "Open"

\* C6: the callback registration passed to a stream open stays allocated
\* for as long as the handle it was passed for is Open.
C6_RegistrationOutlivesHandle ==
    \A r \in Registrations : hstate[r[1]] = "Open" => reg[r] # "released"

\* C7: a close and an operation of two threads on the same handle exclude
\* each other: while the close of an open handle is inside the native
\* library, no operation on that handle is.
C7_CloseExcludesOperation ==
    \A t, u \in Threads :
        ~(/\ t # u
          /\ tpc[t].kind = "close" /\ tpc[t].at = "Open"
          /\ tpc[u].kind = "op" /\ tpc[u].h = tpc[t].h)

\* C8: when os.name is neither 'posix' nor 'nt', no library is loaded and no
\* symbol is looked up, no module finishes initialising, and an import that
\* has ended has ended with the unsupported-platform error.
C8_UnsupportedPlatformFailsFast ==
    osname \notin {"posix", "nt"} =>
        /\ loaded = <<>>
        /\ \A m \in Modules : nlookups[m] = 0
        /\ ready = {}
        /\ err \in {"none", UnsupportedError}
        /\ (entry # "none" /\ stack = <<>>) => err = UnsupportedError

\* The import of dvdnav on an unsupported platform has ended with the error.
C8_Witness ==
    /\ osname = "java"
    /\ entry = "dvdnav"
    /\ stack = <<>>
    /\ pos["dvdcss"] = "failed"
    /\ err = UnsupportedError

\* The size constants published next to the descriptors of dvdread.py.
_PGC_SIZE == 236
_PGCI_SRP_SIZE == 8
_PGCIT_SIZE == 8
_PGCI_LU_SIZE == 8
_PGCI_UT_SIZE == 8
_C_ADT_SIZE == 8
_VOBU_ADMAP_SIZE == 4
_TT_SRPT_SIZE == 8
_PTL_MAIT_COUNTRY_SIZE == 8
_PTL_MAIT_SIZE == 8
_VTS_ATTRIBUTES_SIZE == 542
_VTS_ATRT_SIZE == 8
_TXTDT_LU_SIZE == 8
_TXTDT_MGI_SIZE == 20
_VTS_PTT_SRPT_SIZE == 8
_VTS_TMAP_SIZE == 4
_VTS_TMAPT_SIZE == 8

\* The descriptor each constant stands next to.
PublishedSize ==
    [_PGCT |-> _PGC_SIZE, _PGCISrPT |-> _PGCI_SRP_SIZE, _PGCITT |-> _PGCIT_SIZE,
     _PGCILUT |-> _PGCI_LU_SIZE, _PGCIUTT |-> _PGCI_UT_SIZE,
     _CAdTT |-> _C_ADT_SIZE, _VOBUAdMapT |-> _VOBU_ADMAP_SIZE,
     _TtSrPTT |-> _TT_SRPT_SIZE, _PtlMaITCountryT |-> _PTL_MAIT_COUNTRY_SIZE,
     _PtlMaITT |-> _PTL_MAIT_SIZE, _VTSAttributesT |-> _VTS_ATTRIBUTES_SIZE,
     _VTSAtrTT |-> _VTS_ATRT_SIZE, _TxtDtLUT |-> _TXTDT_LU_SIZE,
     _TxtDtMgIT |-> _TXTDT_MGI_SIZE, _VTSPtTSrPTT |-> _VTS_PTT_SRPT_SIZE,
     _VTSTMapT |-> _VTS_TMAP_SIZE, _VTSTMapTT |-> _VTS_TMAPT_SIZE]

\* The classes whose layout is stored.
LaidOut == {n \in StructNames : stg[n].fields # <<>>}

\* The bits a field takes: its width if it is a bitfield, else its size.
BitSize(fld) == IF fld.bits # 0 THEN fld.bits ELSE 8 * fld.size

RECURSIVE SumBits(_, _)
SumBits(flds, k) == IF k = 0 THEN 0 ELSE SumBits(flds, k - 1) + BitSize(flds[k])

\* C9: in every record descriptor (ifo_types.h, nav_types.h) each field
\* starts where the fields declared before it end, with no padding between
\* fields and none after the last one.
C9_PackedOffsets ==
    \A n \in LaidOut :
        ~IsUnion(n) =>
            /\ \A i \in 1..Len(stg[n].fields) :
                 8 * stg[n].fields[i].offset + stg[n].fields[i].bitofs
                     = SumBits(stg[n].fields, i - 1)
            /\ 8 * stg[n].size = SumBits(stg[n].fields, Len(stg[n].fields))

\* C10: the computed size of every descriptor with a published size constant
\* equals that constant.
C10_SizeEqualsPublishedConstant ==
    \A n \in LaidOut \cap DOMAIN PublishedSize : stg[n].size = PublishedSize[n]

\* The logical block length and the sizes of the two regions of a
\* navigation record (int("3d4", 16) and int("3fa", 16)).
_DVD_VIDEO_LB_LEN == 2048
_PCI_BYTES == 980
_DSI_BYTES == 1018

\* C11: the PCI and DSI region sizes sum to the 2048-byte navigation record,
\* and the computed sizes of the _PCIT and _DSIT layouts equal _PCI_BYTES
\* and _DSI_BYTES.
C11_NavRecordSplit ==
    {"_PCIT", "_DSIT"} \subseteq LaidOut =>
        /\ _PCI_BYTES + _DSI_BYTES = _DVD_VIDEO_LB_LEN
        /\ stg["_PCIT"].size = _PCI_BYTES
        /\ stg["_DSIT"].size = _DSI_BYTES

\* C12: a descriptor whose computed size differs from its published size
\* constant makes initialisation fail: dvdread never finishes initialising
\* with a mismatching descriptor.
C12_MismatchAbortsBinding ==
    "dvdread" \in ready =>
        \A n \in DOMAIN PublishedSize : stg[n].size = PublishedSize[n]

\* C13: consecutive bitfields are packed from the least-significant bit in
\* declaration order, no bitfield reaches past its storage unit, and every
\* run of bitfields fills its storage units exactly.
C13_BitfieldsFillUnits ==
    \A n \in LaidOut :
        LET fs == stg[n].fields IN
        \A i \in 1..Len(fs) :
            fs[i].bits # 0 =>
                /\ fs[i].bitofs + fs[i].bits <= 8 * fs[i].size
                /\ (i > 1 /\ fs[i - 1].bits # 0 /\ fs[i].bitofs # 0) =>
                       /\ fs[i].offset = fs[i - 1].offset
                       /\ fs[i].bitofs = fs[i - 1].bitofs + fs[i - 1].bits
                /\ (i = Len(fs) \/ fs[i + 1].bits = 0 \/ fs[i + 1].bitofs = 0) =>
                       fs[i].bitofs + fs[i].bits = 8 * fs[i].size

\* C14: after a value v with 0 <= v < 2^w is assigned to a bitfield of
\* width w, reading the bitfield yields v and every other field of the
\* record reads as it did before the assignment.
C14_BitfieldRoundTrip ==
    wrote.i # 0 =>
        LET fs == stg[inst].fields IN
        /\ GetField(buf, fs[wrote.i]) = wrote.v
        /\ \A j \in 1..Len(fs) :
             j # wrote.i => GetField(buf, fs[j]) = wrote.before[j]

\* The all-ones value has been assigned to the 10-bit field x_start of a
\* zero-filled _BtnIT whose 2-bit neighbour btn_coln was assigned before.
C14_Witness ==
    /\ inst = "_BtnIT"
    /\ nwrites = 2
    /\ wrote.i = 2
    /\ wrote.v = 1023
    /\ wrote.before[1] = 3
    /\ GetField(buf, stg[inst].fields[2]) = 1023

\* C15: every shell class has its field list assigned at most once, after
\* the shell exists; no instance of it is made before that; and once its
\* module has finished initialising the field list is assigned.
C15_ShellsPatchedOnce ==
    \A c \in Shells :
        /\ cstate[c].assigned <= 1
        /\ cstate[c].assigned = 1 => cstate[c].declared
        /\ c \in constructed => cstate[c].assigned = 1
        /\ ModuleOf(c) \in ready => cstate[c].assigned = 1

\* All three modules are imported, every shell is patched and the host has
\* made a _DVDNavS instance.
C15_Witness ==
    /\ ready = Modules
    /\ \A c \in Shells : cstate[c].assigned = 1
    /\ "_DVDNavS" \in constructed
    /\ cstate["_DVDCSSS"].appended = 2

\* C16: when a field list is assigned, every class it holds by value has had
\* its own field list assigned before (so holding by value is acyclic), and
\* no class without a field list has been made final by being held by value.
C16_ByValueAssignedBefore ==
    /\ \A m \in Modules :
          LET body == ClassStatements(m) IN
          \A i \in 1..Len(body) :
              (/\ body[i].kind \in {"class", "patch"}
               /\ cstate[body[i].name].assigned >= 1) =>
                  \A b \in body[i].byval :
                      /\ cstate[b].assigned >= 1
                      /\ cstate[b].at < cstate[body[i].name].at
    /\ \A c \in AllClasses : cstate[c].final => cstate[c].assigned >= 1

\* _DVDNavS, which holds five classes of two modules by value, is patched.
C16_Witness ==
    /\ cstate["_DVDNavS"].assigned = 1
    /\ cstate["_VMT"].assigned = 1
    /\ ByValue("_DVDNavS") = {"_DSIT", "_DVDNavLoggerCB", "_DVDNavVOBUS", "_PCIT", "_VMPositionS"}
    /\ cstate["_DSIT"].at < cstate["_DVDNavS"].at

\* C17: a host-supplied read behaviour can be placed in the pf_read slot of
\* a stream descriptor, is called with the byte count native code passed,
\* and the integer it returns is the value reported to native code.
C17_ReadCallbackPassesIntegers ==
    \A sl \in Slots :
        sl[2] = "pf_read" =>
            /\ tramps[sl] # "TypeError"
            /\ call.slot = sl =>
                   /\ call.got = PyInt(call.requested)
                   /\ call.reported = PyInt(call.ret)

\* C18: within each stream descriptor the prototypes of pf_seek, pf_read and
\* pf_readv differ from one another, and each differs from the prototype of
\* the logging callback.
C18_DistinctTrampolineShapes ==
    \A a, b \in Slots :
        (/\ a # b
         /\ tramps[a] # "none" /\ tramps[b] # "none"
         /\ a[1] \in StreamDescriptors
         /\ b[1] = a[1] \/ b[1] \in LoggerDescriptors)
            => Signature[a[1]][a[2]] # Signature[b[1]][b[2]]

\* C19: a library that cannot be loaded or a symbol that cannot be looked up
\* ends initialisation: the failing module body and the body of every module
\* importing it are abandoned, none of them becomes available to the host,
\* and a module that is available has looked up every symbol, with the
\* module it depends on available too.
C19_LoadFailureIsFatal ==
    /\ err \in {LoadError, SymbolError} =>
           /\ stack = <<>>
           /\ pos[entry] = "failed"
           /\ \A m \in Modules : pos[m] = "failed" => m \notin ready
           /\ \A m \in Modules :
                  (DependsOn(m) # "none" /\ pos[DependsOn(m)] = "failed") => m \notin ready
    /\ \A m \in ready :
           /\ pos[m] = "done"
           /\ nlookups[m] = NSymbols(m)
           /\ DependsOn(m) # "none" => DependsOn(m) \in ready

\* A symbol of libdvdread is missing while dvdnav is being imported: dvdcss
\* stays available, dvdread and dvdnav do not become available.
C19_Witness ==
    /\ err = SymbolError
    /\ entry = "dvdnav"
    /\ "dvdcss" \in ready
    /\ pos["dvdread"] = "failed" /\ pos["dvdnav"] = "failed"
    /\ nlookups["dvdread"] \in 1..NSymbolsDvdread
    /\ nlookups["dvdnav"] = 0

\* C20: the value a read, seek or query entry point hands to the host is the
\* value the native function returned, negative and error values included,
\* and the call never raises because of it.
C20_StatusPassedThrough ==
    result.ep # "none" =>
        /\ result.host = TwosComplement(result.native)
        /\ ~result.raised

\* A logical-stream query returns -1 in a register whose upper bytes are zero.
C20_Witness ==
    /\ result.ep = "dvdnav_get_audio_logical_stream"
    /\ result.native = -1
    /\ result.register[1] = 0
    /\ result.host = TwosComplement(-1)

\* The elements of a sequence.
Range(seq) == {seq[i] : i \in 1..Len(seq)}

\* The libraries the modules load on a platform.
PlatformLibs(os) == UNION {Range(PlatformBranch(m, os).libs) : m \in Modules}

\* C22: no library name is handed to the loader twice, the libraries loaded
\* all belong to one platform, a module that has looked up a symbol has its
\* libraries loaded, and a loaded library stays loaded, in the place it has.
C22_LibraryResolvedOnce ==
    /\ [](/\ \A i, j \in 1..Len(loaded) : i # j => loaded[i] # loaded[j]
          /\ \E os \in {"posix", "nt"} : Range(loaded) \subseteq PlatformLibs(os)
          /\ \A m \in Modules :
                nlookups[m] > 0 =>
                    Range(PlatformBranch(m, osname).libs) \subseteq Range(loaded))
    /\ [][/\ Len(loaded') >= Len(loaded)
          /\ SubSeq(loaded', 1, Len(loaded)) = loaded]_vars

\* C25: when os.name is 'nt' no library is loaded, no symbol is looked up and
\* no class statement of any module runs (the 'nt' fields of _DVDCSSS are not
\* appended), no module reaches its binding statements or becomes
\* available, and an import that has ended has ended in dvdcss with the
\* Windows-not-implemented error.
C25_WindowsAlwaysFailsInDvdcss ==
    osname = "nt" =>
        /\ loaded = <<>>
        /\ \A m \in Modules :
              nlookups[m] = 0 /\ nstmts[m] = 0 /\ pos[m] \notin {"bind", "done"}
        /\ cstate["_DVDCSSS"].appended = 0
        /\ ready = {}
        /\ \A m \in {"dvdread", "dvdnav"} : pos[m] # "platform"
        /\ err \in {"none", WindowsError}
        /\ (entry # "none" /\ stack = <<>>) =>
               err = WindowsError /\ pos["dvdcss"] = "failed"

\* The import of dvdnav on 'nt' has ended in dvdcss.
C25_Witness ==
    /\ osname = "nt"
    /\ entry = "dvdnav"
    /\ stack = <<>>
    /\ err = WindowsError
    /\ \A m \in Modules : pos[m] = "failed"

\* The libraries of the posix platform in dependency order.
PosixLoadOrder == <<"libdvdcss.so.2", "libdvdread.so.8", "libdvdnav.so.4">>

\* C26: on 'posix' the libraries are loaded in the order libdvdcss.so.2,
\* libdvdread.so.8, libdvdnav.so.4: the first one loaded is libdvdcss.so.2
\* and each later one is the next of the order, or the same one again when
\* the body of its module runs again after a failed import; a module has
\* looked up a symbol only with its library loaded; and after a failed load
\* no module whose library is missing has looked up a symbol.
C26_PosixLoadOrder ==
    osname = "posix" =>
        /\ loaded # <<>> => loaded[1] = PosixLoadOrder[1]
        /\ \A i \in 1..(Len(loaded) - 1) :
              \E k \in 1..Len(PosixLoadOrder) :
                  /\ loaded[i] = PosixLoadOrder[k]
                  /\ \/ loaded[i + 1] = PosixLoadOrder[k]
                     \/ /\ k < Len(PosixLoadOrder)
                        /\ loaded[i + 1] = PosixLoadOrder[k + 1]
        /\ \A m \in Modules :
              nlookups[m] > 0 =>
                  Range(PlatformBranch(m, "posix").libs) \subseteq Range(loaded)
        /\ err = LoadError =>
              /\ stack = <<>>
              /\ \A m \in Modules :
                    ~(Range(PlatformBranch(m, "posix").libs) \subseteq Range(loaded))
                        => nlookups[m] = 0 /\ m \notin ready

\* The import of dvdnav has loaded the three libraries in order and dvdnav
\* looks up its symbols.
C26_Witness ==
    /\ osname = "posix"
    /\ entry = "dvdnav"
    /\ loaded = PosixLoadOrder
    /\ nlookups["dvdnav"] > 0
    /\ err = "none"

\* C23: the union _AppInfo has size 1 with karaoke and surround both at its
\* first byte, _AudioAttrT has size 8, and after an assignment through one
\* variant the assigned field reads back the value, both variants cover the
\* same byte of the record, and application_mode is what it was.
C23_AppInfoVariantsShareByte ==
    /\ {"_AppInfo", "_AudioAttrT"} \subseteq LaidOut =>
           /\ stg["_AppInfo"].size = 1
           /\ \A k \in 1..Len(stg["_AppInfo"].fields) :
                  stg["_AppInfo"].fields[k].offset = 0 /\ stg["_AppInfo"].fields[k].size = 1
           /\ stg["_AudioAttrT"].size = 8
    /\ vwrote.i # 0 =>
           LET k == CHOOSE n \in 1..Len(Variants) : Variants[n].name = vwrote.variant
               fld == Within(stg[VariantClass(k)].fields[vwrote.i], Variants[k].offset)
           IN /\ GetField(buf, fld) = vwrote.v
              /\ \A a, b \in 1..Len(Variants) :
                     GetField(buf, Variants[a]) = GetField(buf, Variants[b])
              /\ GetField(buf, FieldNamed(stg[inst].fields, "application_mode")) = vwrote.tag

\* dolby_encoded is set through the surround variant of a record whose
\* application_mode is 3 and whose karaoke variant was assigned before.
C23_Witness ==
    /\ inst = "_AudioAttrT"
    /\ nwrites = 2
    /\ vwrote.variant = "surround"
    /\ vwrote.i = 2
    /\ vwrote.v = 1
    /\ vwrote.tag = 3
    /\ GetField(buf, Within(FieldNamed(stg["_Karaoke"].fields, "version"), Variants[1].offset)) = 1

\* C21: the host reaches no field of the memory behind a handle: it never
\* reads or assigns handle.contents.<field> with success.
C21_HandlesAreOpaque ==
    \A t \in Threads : tpc[t].kind # "field"

\* C24: once dvdcss is imported the layout of _DVDCSSS holds the entries of
\* its field list, the appended ones included: p_stream and p_stream_cb
\* follow b_debug (after the three 'nt' entries on 'nt') and p_stream_cb is
\* the last field.
C24_AppendedFieldsInLayout ==
    "dvdcss" \in ready =>
        LET l == EffectiveLayout("_DVDCSSS") IN
        /\ l = FieldList("_DVDCSSS")
                 \o AppendedNames(Appends("_DVDCSSS"), Platform(osname))
        /\ l = ListObject("_DVDCSSS")
        /\ l[Len(l)] = "p_stream_cb"

\* C29: in every class whose field list is assigned, the names of the
\* entries are pairwise distinct: as many fields can be reached by name as
\* there are entries.
C29_FieldNamesDistinct ==
    \A c \in AllClasses :
        cstate[c].assigned >= 1 =>
            Cardinality(Addressable(c)) = Len(EffectiveLayout(c))

\* The struct class a pointer type leads to ("none" if it leads to none).
RECURSIVE ContextOf(_)
ContextOf(type) ==
    IF type[1] = "struct" THEN type[2]
    ELSE IF type[1] = "ptr" THEN ContextOf(type[2])
    ELSE "none"

\* An argument list that is not one for the native parameters: another
\* number of arguments, or an argument its parameter's type does not accept.
Deviates(ep, args) ==
    LET p == NativeParameters(ep) IN
    \/ Len(args) # Len(p)
    \/ \E i \in 1..Len(p) : ~Accepts(p[i], args[i])

\* C27: an entry point that is called and whose native function takes an
\* argument has its argtypes declared, and a call of it with the wrong number
\* or types of arguments ends on the host side, not in native code.
C27_ArgumentsChecked ==
    (acall.ep # "none" /\ Len(NativeParameters(acall.ep)) >= 1) =>
        /\ Argtypes[acall.ep].declared
        /\ Deviates(acall.ep, acall.args) => acall.outcome # "native"

\* The open entry points and the close and operations of their context.
HandleUsers ==
    [dvd_open |-> {"dvd_close", "dvd_open_file"},
     dvd_open_file |-> {"dvd_close_file", "dvd_read_blocks"},
     dvdcss_open |-> {"dvdcss_close"},
     dvdnav_open |-> {"dvdnav_close"}]

\* C28: what an open entry point hands out has the type of the first
\* parameter of its close and operations, and a call of one of these entry
\* points with a handle of another context type in the place of a declared
\* parameter does not reach native code.
C28_HandleTypesMatch ==
    /\ \A o \in DOMAIN HandleUsers : \A u \in HandleUsers[o] :
           Argtypes[u].declared /\ Argtypes[u].types[1] = Produces(o)
    /\ \A o \in DOMAIN HandleUsers : \A ep \in {o} \cup HandleUsers[o] :
           (acall.ep = ep /\
            \E i \in 1..Len(Argtypes[ep].types) :
                /\ i <= Len(acall.args)
                /\ acall.args[i].kind = "instance"
                /\ acall.args[i].type \in HandleTypes
                /\ ContextOf(acall.args[i].type) # ContextOf(Argtypes[ep].types[i]))
               => acall.outcome # "native"

\* dvd_close is called with a file handle and ctypes raises ArgumentError.
C28_Witness ==
    /\ acall.ep = "dvd_close"
    /\ acall.args = <<Instance(POINTER(Struct("_DVDFileS")))>>
    /\ acall.outcome = "ArgumentError"

\* 64-bit offsets as native code holds them, byte 0 the lowest: zero, one
\* sector, 2^63 - 1, 2^63, 2^64 - 1.
Offsets64 ==
    {TwosComplement(0), TwosComplement(2048), TwosComplement(-1),
     [i \in 0..7 |-> IF i = 7 THEN 127 ELSE 255],
     [i \in 0..7 |-> IF i = 7 THEN 128 ELSE 0]}

\* The Python int a prototype's argument type makes of the eight bytes of an
\* offset: below zero for a signed type when the top bit is set, with the
\* same two's complement form.
OffsetSeen(type, bytes) ==
    [negative |-> type[3] = "signed" /\ bytes[type[2] - 1] >= 128,
     form |-> bytes]

\* The offset parameter of the pf_seek slot of a stream descriptor.
SeekOffsetType(d) == Signature[d].pf_seek.args[2]

\* C30: once the host has wrapped a seek function in the pf_seek prototype
\* of _DVDCSSStreamCB and in that of _DVDReaderStreamCB (_DVDNavStreamCB),
\* the two prototypes declare the same offset type and every 64-bit offset,
\* those at or above 2^63 too, is the same integer through either.
C30_SeekOffsetSameInteger ==
    (/\ tramps[<<"_DVDCSSStreamCB", "pf_seek">>] # "none"
     /\ tramps[<<"_DVDReaderStreamCB", "pf_seek">>] # "none")
        => /\ SeekOffsetType("_DVDCSSStreamCB") = SeekOffsetType("_DVDReaderStreamCB")
           /\ \A o \in Offsets64 :
                OffsetSeen(SeekOffsetType("_DVDCSSStreamCB"), o)
                    = OffsetSeen(SeekOffsetType("_DVDReaderStreamCB"), o)

====
